---- MODULE Spec2Model ----
(***************************************************************************)
(* Model of the BVGraph codec of src/webgraph/bvgraph_huffman_out.rs: the  *)
(* differential successor coder (diff_comp / add_vals), the intervalizer,  *)
(* the successor-list decoder (decode_list) and the two-pass compressor    *)
(* (compress).  Bit streams are modelled as sequences of written fields,   *)
(* each with the code it was written with and hence its length in bits.    *)
(***************************************************************************)
EXTENDS Integers, Sequences, FiniteSets, TLC

----------------------------------------------------------------------------
(* Context layout, bvgraph_huffman_out.rs:31-42 *)

OUTD_IDX_BEGIN == 0
OUTD_IDX_LEN == 32
BLOCKS_IDX_BEGIN == OUTD_IDX_BEGIN + OUTD_IDX_LEN
BLOCKS_IDX_LEN == 3
RESIDUALS_IDX_BEGIN == BLOCKS_IDX_BEGIN + BLOCKS_IDX_LEN
RESIDUALS_IDX_LEN == 112
INTERVALS_LEFT_IDX_BEGIN == RESIDUALS_IDX_BEGIN + RESIDUALS_IDX_LEN
INTERVALS_LEFT_IDX_LEN == 32
INTERVALS_LEN_IDX_BEGIN == INTERVALS_LEFT_IDX_BEGIN + INTERVALS_LEFT_IDX_LEN
INTERVALS_LEN_IDX_LEN == 32
NUM_CONTEXTS == INTERVALS_LEN_IDX_BEGIN + INTERVALS_LEN_IDX_LEN

----------------------------------------------------------------------------
(* Bounds of the model *)

\* successors are drawn from 0..MaxVal
MaxVal == 4
\* longest successor list of the single-node codec inputs
MaxLen == 3
\* node ids of the single-node codec inputs are 0..MaxX
MaxX == 1
\* the window size of the single-node codec inputs is 0 or MaxW, and the
\* references are 0..MaxW
MaxW == 1
\* minimum interval lengths are 0..MaxLmin (0 disables intervals)
MaxLmin == 3

\* compress: the number of nodes of the graph; successors range over the
\* nodes
MaxNodes == 3

\* compress: out_window_size ranges over 0..MaxWindow
MaxWindow == 2

\* compress: out_max_ref_count ranges over 0..MaxRefCount
MaxRefCount == 2

----------------------------------------------------------------------------
(* Small helpers on sequences *)

Min(a, b) == IF a < b THEN a ELSE b

\* the sum of s[lo..hi], by halves
RECURSIVE SumRange(_, _, _)
SumRange(s, lo, hi) ==
    IF lo > hi THEN 0
    ELSE IF lo = hi THEN s[lo]
    ELSE SumRange(s, lo, (lo + hi) \div 2) + SumRange(s, ((lo + hi) \div 2) + 1, hi)

SumSeq(s) == SumRange(s, 1, Len(s))

Range(s) == {s[i] : i \in 1..Len(s)}

StrictlyIncreasing(s) == \A i \in 1..(Len(s) - 1) : s[i] < s[i + 1]

NonDecreasing(s) == \A i \in 1..(Len(s) - 1) : s[i] <= s[i + 1]

\* the strictly increasing sequence that enumerates a finite set of integers
RECURSIVE SortedSeq(_)
SortedSeq(S) ==
    IF S = {} THEN <<>>
    ELSE LET m == CHOOSE v \in S : \A w \in S : v <= w
         IN <<m>> \o SortedSeq(S \ {m})

----------------------------------------------------------------------------
(* utils::{int2nat, nat2int} and utils::encodings (outside src/): modelled  *)
(* from sections 4.2 and 4.3 of the specification.                          *)

int2nat(x) == IF x >= 0 THEN 2 * x ELSE -2 * x - 1

nat2int(v) == IF v % 2 = 0 THEN v \div 2 ELSE -((v + 1) \div 2)

RECURSIVE Log2Floor(_)
Log2Floor(v) == IF v <= 1 THEN 0 ELSE 1 + Log2Floor(v \div 2)

RECURSIVE Pow2(_)
Pow2(e) == IF e <= 0 THEN 1 ELSE 2 * Pow2(e - 1)

\* Zuckerli bucket of section 4.3 with i = I_ZUCK
I_ZUCK == 4

zuck_encode(v) ==
    IF v < Pow2(I_ZUCK) THEN v
    ELSE LET n == Log2Floor(v)
             s == n - I_ZUCK
         IN (s + 1) * Pow2(I_ZUCK) + ((v - Pow2(n)) \div Pow2(n - I_ZUCK))

\* lengths in bits of the universal codes of section 4.2
UnaryLen(v) == v + 1

GammaLen(v) == 2 * Log2Floor(v + 1) + 1

RECURSIVE ZetaH(_, _, _)
ZetaH(v, k, h) == IF v + 1 < Pow2((h + 1) * k) THEN h ELSE ZetaH(v, k, h + 1)

ZetaLen(v, k) ==
    LET h == ZetaH(v, k, 0)
        off == v + 1 - Pow2(h * k)
    IN h + 1 + (IF off < Pow2(h * k) THEN h * k + k - 1 ELSE h * k + k)

----------------------------------------------------------------------------
(* intervalize, bvgraph_huffman_out.rs:1250-1294.  Indices i, j are the     *)
(* code's 0-based indices; extras[i] of the code is extras[i + 1] here.     *)

\* mutant of RunScan: the run is not extended past its second element
RunScanOnce(extras, i, j) == j

\* the inner while loop at 1272-1274
RECURSIVE RunScan(_, _, _)
RunScan(extras, i, j) ==
    IF i + j < Len(extras) - 1 /\ extras[i + j + 1] + 1 = extras[i + j + 2]
    THEN RunScan(extras, i, j + 1)
    ELSE j

\* mutant of IntervalizeStep: i += j instead of i += j - 1 after an interval
IntervalizeStepSkip(extras, min_interval_len, i, st) ==
    LET hasNext == i < Len(extras) - 1 /\ extras[i + 1] + 1 = extras[i + 2]
        j == IF hasNext THEN RunScan(extras, i, 1) + 1 ELSE 0
        isInterval == hasNext /\ j >= min_interval_len
        i1 == IF isInterval THEN i + j ELSE i
        st1 == IF isInterval
               THEN [st EXCEPT !.left = Append(@, extras[i + 1]),
                               !.len = Append(@, j),
                               !.n_interval = @ + 1]
               ELSE st
        st2 == IF j < min_interval_len
               THEN [st1 EXCEPT !.residuals = Append(@, extras[i1 + 1])]
               ELSE st1
    IN [st2 EXCEPT !.i = i1 + 1]

\* one iteration of the outer while loop at 1268-1291
IntervalizeStep(extras, min_interval_len, i, st) ==
    LET hasNext == i < Len(extras) - 1 /\ extras[i + 1] + 1 = extras[i + 2]
        j == IF hasNext THEN RunScan(extras, i, 1) + 1 ELSE 0
        isInterval == hasNext /\ j >= min_interval_len
        i1 == IF isInterval THEN i + j - 1 ELSE i
        st1 == IF isInterval
               THEN [st EXCEPT !.left = Append(@, extras[i + 1]),
                               !.len = Append(@, j),
                               !.n_interval = @ + 1]
               ELSE st
        st2 == IF j < min_interval_len
               THEN [st1 EXCEPT !.residuals = Append(@, extras[i1 + 1])]
               ELSE st1
    IN [st2 EXCEPT !.i = i1 + 1]

RECURSIVE IntervalizeLoop(_, _, _)
IntervalizeLoop(extras, min_interval_len, st) ==
    IF st.i < Len(extras)
    THEN IntervalizeLoop(extras, min_interval_len,
                         IntervalizeStep(extras, min_interval_len, st.i, st))
    ELSE st

intervalize(extras, min_interval_len) ==
    IntervalizeLoop(extras, min_interval_len,
                    [i |-> 0, left |-> <<>>, len |-> <<>>, residuals |-> <<>>,
                     n_interval |-> 0])

----------------------------------------------------------------------------
(* The copy-block scan of diff_comp (1319-1405).  j, k are the code's      *)
(* 0-based indices.                                                         *)

\* mutant of DiffStep: while skipping, a successor below the reference's
\* element is passed over without being recorded as an extra (1362-1365)
DiffStepSkipExtra(curr_list, ref_list, s) ==
    LET c == curr_list[s.j + 1]
        f == ref_list[s.k + 1]
    IN IF s.copying
       THEN IF c > f
            THEN [s EXCEPT !.blocks = Append(@, s.curr_block_len),
                           !.copying = FALSE, !.curr_block_len = 0]
            ELSE IF c < f
            THEN [s EXCEPT !.extras = Append(@, c), !.j = @ + 1]
            ELSE [s EXCEPT !.j = @ + 1, !.k = @ + 1, !.curr_block_len = @ + 1]
       ELSE IF c < f
            THEN [s EXCEPT !.j = @ + 1]
            ELSE IF c > f
            THEN [s EXCEPT !.k = @ + 1, !.curr_block_len = @ + 1]
            ELSE [s EXCEPT !.blocks = Append(@, s.curr_block_len),
                           !.copying = TRUE, !.curr_block_len = 0]

\* one iteration of the while loop at 1330-1384
DiffStep(curr_list, ref_list, s) ==
    LET c == curr_list[s.j + 1]
        f == ref_list[s.k + 1]
    IN IF s.copying
       THEN IF c > f
            THEN [s EXCEPT !.blocks = Append(@, s.curr_block_len),
                           !.copying = FALSE, !.curr_block_len = 0]
            ELSE IF c < f
            THEN [s EXCEPT !.extras = Append(@, c), !.j = @ + 1]
            ELSE [s EXCEPT !.j = @ + 1, !.k = @ + 1, !.curr_block_len = @ + 1]
       ELSE IF c < f
            THEN [s EXCEPT !.extras = Append(@, c), !.j = @ + 1]
            ELSE IF c > f
            THEN [s EXCEPT !.k = @ + 1, !.curr_block_len = @ + 1]
            ELSE [s EXCEPT !.blocks = Append(@, s.curr_block_len),
                           !.copying = TRUE, !.curr_block_len = 0]

RECURSIVE DiffLoop(_, _, _, _)
DiffLoop(curr_list, ref_list, ref_len, s) ==
    IF s.j < Len(curr_list) /\ s.k < ref_len
    THEN DiffLoop(curr_list, ref_list, ref_len, DiffStep(curr_list, ref_list, s))
    ELSE s

\* mutant of DiffScan: the last copy block is enqueued even when it reaches
\* the end of the reference list (1388)
DiffScanAlwaysLastBlock(reference, ref_list, curr_list) ==
    LET ref_len == IF reference = 0 THEN 0 ELSE Len(ref_list)
        s == DiffLoop(curr_list, ref_list, ref_len,
                      [j |-> 0, k |-> 0, copying |-> TRUE, curr_block_len |-> 0,
                       blocks |-> <<>>, extras |-> <<>>])
    IN [blocks |-> IF s.copying /\ ref_len > 0
                   THEN Append(s.blocks, s.curr_block_len)
                   ELSE s.blocks,
        extras |-> s.extras \o SubSeq(curr_list, s.j + 1, Len(curr_list))]

\* mutant of DiffScan: the last copy block is never enqueued (1388-1393)
DiffScanNoLastBlock(reference, ref_list, curr_list) ==
    LET ref_len == IF reference = 0 THEN 0 ELSE Len(ref_list)
        s == DiffLoop(curr_list, ref_list, ref_len,
                      [j |-> 0, k |-> 0, copying |-> TRUE, curr_block_len |-> 0,
                       blocks |-> <<>>, extras |-> <<>>])
    IN [blocks |-> s.blocks,
        extras |-> s.extras \o SubSeq(curr_list, s.j + 1, Len(curr_list))]

\* 1319-1402: the blocks and the extras of curr_list against ref_list
DiffScan(reference, ref_list, curr_list) ==
    LET ref_len == IF reference = 0 THEN 0 ELSE Len(ref_list)
        s == DiffLoop(curr_list, ref_list, ref_len,
                      [j |-> 0, k |-> 0, copying |-> TRUE, curr_block_len |-> 0,
                       blocks |-> <<>>, extras |-> <<>>])
        blocks == IF s.copying /\ s.k < ref_len
                  THEN Append(s.blocks, s.curr_block_len)
                  ELSE s.blocks
        extras == s.extras \o SubSeq(curr_list, s.j + 1, Len(curr_list))
    IN [blocks |-> blocks, extras |-> extras]

----------------------------------------------------------------------------
(* The fields diff_comp writes (1407-1609).  A written field is a record    *)
(* [role, val, code, ctx]: code is the code it is written with, ctx the     *)
(* Huffman context (NoCtx for a universal code).                            *)

NoCtx == -1

\* the codes of the roles that are not Huffman-coded in a Huffman graph
\* (block count, reference, offset), decompress_huff.rs:35-36
OutReferenceCoding == "unary"
OutBlockCountCoding == "gamma"
OutOffsetCoding == "gamma"

\* BVGraphBuilder::default, out_zeta_k: Some(3)
out_zeta_k == 3

Tok(role, val, code, ctx) == [role |-> role, val |-> val, code |-> code, ctx |-> ctx]

\* a Huffman-coded field when an encoder is passed, else the default code
HuffTok(huff, role, val, ctx, default) ==
    IF huff THEN Tok(role, val, "huffman", ctx) ELSE Tok(role, val, default, NoCtx)

\* mutant of BlockToks: no block length is decremented
BlockToksAsIs(blocks, huff) ==
    [i \in 1..Len(blocks) |->
        HuffTok(huff, "block", blocks[i],
                IF i = 1 THEN BLOCKS_IDX_BEGIN
                ELSE BLOCKS_IDX_BEGIN + ((i - 1) % 2) + 1, "gamma")]

\* 1417-1446: the copy list; all lengths except the first one are decremented
BlockToks(blocks, huff) ==
    [i \in 1..Len(blocks) |->
        IF i = 1
        THEN HuffTok(huff, "block", blocks[1], BLOCKS_IDX_BEGIN, "gamma")
        ELSE HuffTok(huff, "block", blocks[i] - 1,
                     BLOCKS_IDX_BEGIN + ((i - 1) % 2) + 1, "gamma")]

\* 1471-1545: the loop over the intervals; i is the code's 0-based index
RECURSIVE IntervalToks(_, _, _, _, _, _, _, _, _)
IntervalToks(i, left, len, curr_node, min_interval_len, prev, last_interval_left, last_interval_len, huff) ==
    IF i >= Len(left) THEN <<>>
    ELSE LET leftVal == IF i = 0 THEN int2nat(left[1] - curr_node)
                        ELSE left[i + 1] - prev - 1
             leftCtx == IF i = 0 THEN INTERVALS_LEFT_IDX_BEGIN
                        ELSE INTERVALS_LEFT_IDX_BEGIN + 1
                               + Min(zuck_encode(last_interval_left), 30)
             curr_int_len == len[i + 1]
             lenVal == curr_int_len - min_interval_len
             lenCtx == IF i = 0 THEN INTERVALS_LEN_IDX_BEGIN
                       ELSE INTERVALS_LEN_IDX_BEGIN + 1
                              + Min(zuck_encode(last_interval_len), 30)
         IN << HuffTok(huff, "left", leftVal, leftCtx, "gamma"),
               HuffTok(huff, "len", lenVal, lenCtx, "gamma") >>
            \o IntervalToks(i + 1, left, len, curr_node, min_interval_len,
                            left[i + 1] + curr_int_len, leftVal, lenVal, huff)

\* 1568-1584 and 1592-1606: the residuals after the first; stops at a
\* residual equal to its predecessor (the Err return)
RECURSIVE ResidualLoop(_, _, _, _, _, _)
ResidualLoop(i, residual, prev, prev_residual, huff, acc) ==
    IF i >= Len(residual) THEN [toks |-> acc, repeated |-> FALSE]
    ELSE IF residual[i + 1] = prev THEN [toks |-> acc, repeated |-> TRUE]
    ELSE LET val == residual[i + 1] - prev - 1
             ctx == RESIDUALS_IDX_BEGIN + 32 + Min(zuck_encode(prev_residual), 79)
         IN ResidualLoop(i + 1, residual, residual[i + 1], val, huff,
                         Append(acc, HuffTok(huff, "residual", val, ctx, "zeta")))

\* 1555-1608
ResidualToks(residual, curr_node, huff) ==
    IF Len(residual) = 0 THEN [toks |-> <<>>, repeated |-> FALSE]
    ELSE LET first == int2nat(residual[1] - curr_node)
             ctx == RESIDUALS_IDX_BEGIN + Min(zuck_encode(Len(residual)), 31)
         IN ResidualLoop(1, residual, residual[1], first, huff,
                         << HuffTok(huff, "residual", first, ctx, "zeta") >>)

(* diff_comp, bvgraph_huffman_out.rs:1297-1612.  The result holds the       *)
(* scratch vectors, the fields written in order, and the outcome: "ok",     *)
(* "bad_reference" (write_reference's Err), "repeated" (the Err at          *)
(* 1570/1594) or "underflow" (a usize subtraction below zero: a panic in a  *)
(* debug build, a wrapped value in a release build).  It is split into the  *)
(* stages of the function, each stage handing its results to the next.      *)

\* the scratch vectors when intervalize is not called
NoIntervals == [i |-> 0, left |-> <<>>, len |-> <<>>, residuals |-> <<>>, n_interval |-> 0]

\* 1611 and the Err returns: the outcome, given all the fields
DiffCompOutcome(window_size, reference, blocks, extras, iv, repeated, toks) ==
    IF window_size > 0 /\ reference > window_size
    THEN [status |-> "bad_reference", blocks |-> blocks, extras |-> extras,
          left |-> iv.left, len |-> iv.len, residuals |-> iv.residuals,
          toks |-> <<>>]
    ELSE [status |-> IF \E t \in 1..Len(toks) : toks[t].val < 0 THEN "underflow"
                     ELSE IF repeated THEN "repeated"
                     ELSE "ok",
          blocks |-> blocks, extras |-> extras,
          left |-> iv.left, len |-> iv.len, residuals |-> iv.residuals,
          toks |-> toks]

\* 1407-1609: the fields in the order they are written
DiffCompWrite(window_size, min_interval_len, curr_node, reference, huff, blocks, extras, iv, res) ==
    DiffCompOutcome(window_size, reference, blocks, extras, iv, res.repeated,
        (IF window_size > 0
         THEN << Tok("reference", reference, OutReferenceCoding, NoCtx) >>
         ELSE <<>>)
        \o (IF reference # 0
            THEN << Tok("block_count", Len(blocks), OutBlockCountCoding, NoCtx) >>
                 \o BlockToks(blocks, huff)
            ELSE <<>>)
        \o (IF Len(extras) > 0 /\ min_interval_len # 0
            THEN << Tok("interval_count", iv.n_interval, "gamma", NoCtx) >>
                 \o IntervalToks(0, iv.left, iv.len, curr_node,
                                 min_interval_len, 0, 0, 0, huff)
            ELSE <<>>)
        \o res.toks)

\* 1548-1608: the residuals are what intervalize left, or all the extras
DiffCompResiduals(window_size, min_interval_len, curr_node, reference, huff, blocks, extras, iv) ==
    DiffCompWrite(window_size, min_interval_len, curr_node, reference, huff,
                  blocks, extras, iv,
                  ResidualToks(IF Len(extras) = 0 THEN <<>>
                               ELSE IF min_interval_len # 0 THEN iv.residuals
                               ELSE extras,
                               curr_node, huff))

\* 1449-1462: intervalize is called when there are extras and intervals are on
DiffCompIntervals(window_size, min_interval_len, curr_node, reference, huff, blocks, extras) ==
    DiffCompResiduals(window_size, min_interval_len, curr_node, reference, huff,
                      blocks, extras,
                      IF Len(extras) > 0 /\ min_interval_len # 0
                      THEN intervalize(extras, min_interval_len)
                      ELSE NoIntervals)

DiffCompScanned(window_size, min_interval_len, curr_node, reference, huff, scan) ==
    DiffCompIntervals(window_size, min_interval_len, curr_node, reference, huff,
                      scan.blocks, scan.extras)

diff_comp(window_size, min_interval_len, curr_node, reference, ref_list, curr_list, huff) ==
    DiffCompScanned(window_size, min_interval_len, curr_node, reference, huff,
                    DiffScan(reference, ref_list, curr_list))

----------------------------------------------------------------------------
(* decode_list, bvgraph_huffman_out.rs:795-1081, reading the written fields *)
(* in order.  vals is the sequence of stored values, p the 1-based index of *)
(* the next field to read; a read past the end is the reader's EOF error.   *)

At(vals, p) == IF p \in 1..Len(vals) THEN vals[p] ELSE 0

\* 838-851: block_count block lengths, the first as stored, the others + 1
ReadBlocks(vals, p, block_count) ==
    [i \in 1..block_count |-> At(vals, p + i - 1) + (IF i = 1 THEN 0 ELSE 1)]

\* sum of the even-indexed (0-based) blocks: the copied successors, 845-848
CopiedOf(block) ==
    SumSeq([i \in 1..((Len(block) + 1) \div 2) |-> block[2 * i - 1]])

\* 887-901: the intervals after the first; i is the code's 0-based index
RECURSIVE ReadIntervals(_, _, _, _, _, _, _)
ReadIntervals(vals, p, i, interval_count, min_interval_len, prev, acc) ==
    IF i >= interval_count THEN acc
    ELSE LET l == prev + At(vals, p) + 1
             n == At(vals, p + 1) + min_interval_len
         IN ReadIntervals(vals, p + 2, i + 1, interval_count, min_interval_len,
                          l + n,
                          [left |-> Append(acc.left, l), len |-> Append(acc.len, n)])

\* 909-921: the residuals after the first
RECURSIVE ReadResiduals(_, _, _, _)
ReadResiduals(vals, p, remaining, acc) ==
    IF remaining <= 0 THEN acc
    ELSE ReadResiduals(vals, p + 1, remaining - 1,
                       Append(acc, acc[Len(acc)] + At(vals, p) + 1))

\* 930-947: the intervals expanded into one list
RECURSIVE ExpandIntervals(_, _)
ExpandIntervals(left, len) ==
    IF left = <<>> THEN <<>>
    ELSE [i \in 1..Head(len) |-> Head(left) + i - 1]
         \o ExpandIntervals(Tail(left), Tail(len))

\* 956-974: the merge of the residuals a with the expanded intervals b
RECURSIVE MergeLE(_, _)
MergeLE(a, b) ==
    IF a = <<>> THEN b
    ELSE IF b = <<>> THEN a
    ELSE IF Head(a) <= Head(b) THEN <<Head(a)>> \o MergeLE(Tail(a), b)
    ELSE <<Head(b)>> \o MergeLE(a, Tail(b))

\* 1060-1078: the merge of the copied list a with the extras b
RECURSIVE MergeLT(_, _)
MergeLT(a, b) ==
    IF a = <<>> THEN b
    ELSE IF b = <<>> THEN a
    ELSE IF Head(a) < Head(b) THEN <<Head(a)>> \o MergeLT(Tail(a), b)
    ELSE <<Head(b)>> \o MergeLT(a, Tail(b))

\* 1002-1010 and 1032-1040: skip the next block of the reference list and
\* load the copy block after it (-1: copy to the end)
SkipAndLoad(block, ref_len, s) ==
    LET it1 == Min(s.it + block[s.curr_mask + 1], ref_len)
        cm1 == s.curr_mask + 1
    IN IF cm1 < Len(block)
       THEN [s EXCEPT !.it = it1, !.curr_mask = cm1 + 1, !.left = block[cm1 + 1]]
       ELSE [s EXCEPT !.it = it1, !.curr_mask = cm1, !.left = -1]

\* 1018-1044: the while loop copying from the reference list
RECURSIVE MaskLoop(_, _, _)
MaskLoop(block, ref, s) ==
    IF s.left = 0 \/ s.it >= Len(ref) THEN s.block_list
    ELSE LET next == ref[s.it + 1]
             s1 == [s EXCEPT !.it = @ + 1]
         IN IF s.left = -1
            THEN MaskLoop(block, ref, [s1 EXCEPT !.block_list = Append(@, next)])
            ELSE LET s2 == [s1 EXCEPT !.left = @ - 1]
                     s3 == IF s2.left = 0 /\ s2.curr_mask < Len(block)
                           THEN SkipAndLoad(block, Len(ref), s2)
                           ELSE s2
                 IN MaskLoop(block, ref, [s3 EXCEPT !.block_list = Append(@, next)])

\* 982-1045: the successors copied from the reference list ref
BlockList(block, ref) ==
    LET s0 == [it |-> 0, curr_mask |-> 0, left |-> -1, block_list |-> <<>>]
        s1 == IF Len(block) # 0
              THEN LET a == [s0 EXCEPT !.left = block[1], !.curr_mask = 1]
                   IN IF a.left = 0 /\ a.curr_mask < Len(block)
                      THEN SkipAndLoad(block, Len(ref), a)
                      ELSE a
              ELSE s0
    IN MaskLoop(block, ref, s1)

(* 812-922: the fields of node x, whose outdegree `degree` has been read.   *)
(* refd[r] is the outdegree of node x - r (outd[reference_index] with a     *)
(* window, outdegree_internal(x - r) without).  underflow: a usize           *)
(* subtraction went below zero; eof: a field was read past the end.         *)
decode_fields(window_size, min_interval_len, x, degree, vals, p, refd) ==
    LET reference == IF window_size > 0 THEN At(vals, p) ELSE -1
        p1 == IF window_size > 0 THEN p + 1 ELSE p
        block_count == IF reference > 0 THEN At(vals, p1) ELSE 0
        block == IF reference > 0 THEN ReadBlocks(vals, p1 + 1, block_count) ELSE <<>>
        p2 == IF reference > 0 THEN p1 + 1 + block_count ELSE p1
        total == SumSeq(block)
        ref_outd == IF reference \in DOMAIN refd THEN refd[reference] ELSE 0
        implicit == IF block_count % 2 = 0 THEN ref_outd - total ELSE 0
        copied == CopiedOf(block) + implicit
        extra0 == IF reference > 0 THEN degree - copied ELSE degree
        hasInt == extra0 > 0 /\ min_interval_len # 0
        interval_count == IF hasInt THEN At(vals, p2) ELSE 0
        p3 == IF hasInt THEN p2 + 1 ELSE p2
        left0 == nat2int(At(vals, p3)) + x
        len0 == At(vals, p3 + 1) + min_interval_len
        ivs == IF interval_count # 0
               THEN ReadIntervals(vals, p3 + 2, 1, interval_count, min_interval_len,
                                  left0 + len0,
                                  [left |-> <<left0>>, len |-> <<len0>>])
               ELSE [left |-> <<>>, len |-> <<>>]
        p4 == p3 + 2 * interval_count
        extra_count == extra0 - SumSeq(ivs.len)
        residual_list == IF extra_count > 0
                         THEN ReadResiduals(vals, p4 + 1, extra_count - 1,
                                            << x + nat2int(At(vals, p4)) >>)
                         ELSE <<>>
        p5 == IF extra_count > 0 THEN p4 + extra_count ELSE p4
        extra_list == IF interval_count > 0
                      THEN IF extra_count > 0
                           THEN MergeLE(residual_list, ExpandIntervals(ivs.left, ivs.len))
                           ELSE ExpandIntervals(ivs.left, ivs.len)
                      ELSE residual_list
    IN [reference |-> reference, block |-> block, extra_list |-> extra_list,
        left |-> ivs.left, len |-> ivs.len, residual_list |-> residual_list,
        p |-> p5,
        underflow |-> (reference > 0 /\ (implicit < 0 \/ extra0 < 0)) \/ extra_count < 0,
        eof |-> p5 > Len(vals) + 1]

\* 982-1081: the list of node x from its fields f and its reference list
decode_merge(f, ref) ==
    LET block_list == IF f.reference > 0 THEN BlockList(f.block, ref) ELSE <<>>
    IN IF f.reference <= 0 THEN f.extra_list
       ELSE IF f.extra_list = <<>> THEN block_list
       ELSE MergeLT(block_list, f.extra_list)

----------------------------------------------------------------------------
(* add_vals, bvgraph_huffman_out.rs:1615-1802: the values pass 1 records.   *)
(* The result is the sequence of pushes <<context, value>> in order.        *)

\* mutant of AddValsBlockPush: the two contexts of the later blocks swapped
AddValsBlockPushSwapped(s) ==
    IF s.is_first THEN <<BLOCKS_IDX_BEGIN + 0, s.curr_block_len>>
    ELSE IF s.is_even_block THEN <<BLOCKS_IDX_BEGIN + 2, s.curr_block_len - 1>>
    ELSE <<BLOCKS_IDX_BEGIN + 1, s.curr_block_len - 1>>

\* 1649-1655, 1688-1694, 1707-1713: the push of one block length
AddValsBlockPush(s) ==
    IF s.is_first THEN <<BLOCKS_IDX_BEGIN + 0, s.curr_block_len>>
    ELSE IF s.is_even_block THEN <<BLOCKS_IDX_BEGIN + 1, s.curr_block_len - 1>>
    ELSE <<BLOCKS_IDX_BEGIN + 2, s.curr_block_len - 1>>

\* one iteration of the while loop at 1645-1700
AddValsStep(curr_list, ref_list, s) ==
    LET c == curr_list[s.j + 1]
        f == ref_list[s.k + 1]
        flushed == [s EXCEPT !.pushes = Append(@, AddValsBlockPush(s)),
                             !.is_even_block = ~@, !.is_first = FALSE,
                             !.curr_block_len = 0]
    IN IF s.copying
       THEN IF c > f THEN [flushed EXCEPT !.copying = FALSE]
            ELSE IF c < f
            THEN [s EXCEPT !.extras = Append(@, c), !.j = @ + 1]
            ELSE [s EXCEPT !.j = @ + 1, !.k = @ + 1, !.curr_block_len = @ + 1]
       ELSE IF c < f
            THEN [s EXCEPT !.extras = Append(@, c), !.j = @ + 1]
            ELSE IF c > f
            THEN [s EXCEPT !.k = @ + 1, !.curr_block_len = @ + 1]
            ELSE [flushed EXCEPT !.copying = TRUE,
                                 !.blocks = Append(@, s.curr_block_len)]

RECURSIVE AddValsLoop(_, _, _, _)
AddValsLoop(curr_list, ref_list, ref_len, s) ==
    IF s.j < Len(curr_list) /\ s.k < ref_len
    THEN AddValsLoop(curr_list, ref_list, ref_len, AddValsStep(curr_list, ref_list, s))
    ELSE s

\* 1743-1774: the loop over the intervals; i is the code's 0-based index
RECURSIVE AddValsIntervals(_, _, _, _, _, _, _, _)
AddValsIntervals(i, left, len, curr_node, min_interval_len, prev, last_interval_left, last_interval_len) ==
    IF i >= Len(left) THEN <<>>
    ELSE LET leftVal == IF i = 0 THEN int2nat(left[1] - curr_node)
                        ELSE left[i + 1] - prev - 1
             leftCtx == IF i = 0 THEN INTERVALS_LEFT_IDX_BEGIN
                        ELSE INTERVALS_LEFT_IDX_BEGIN + 1
                               + Min(zuck_encode(last_interval_left), 30)
             curr_int_len == len[i + 1]
             lenVal == curr_int_len - min_interval_len
             lenCtx == IF i = 0 THEN INTERVALS_LEN_IDX_BEGIN
                       ELSE INTERVALS_LEN_IDX_BEGIN + 1
                              + Min(zuck_encode(last_interval_len), 30)
         IN << <<leftCtx, leftVal>>, <<lenCtx, lenVal>> >>
            \o AddValsIntervals(i + 1, left, len, curr_node, min_interval_len,
                                left[i + 1] + curr_int_len, leftVal, lenVal)

\* 1792-1799: the residuals after the first
RECURSIVE AddValsResidualLoop(_, _, _, _)
AddValsResidualLoop(i, residual, prev, prev_residual) ==
    IF i >= Len(residual) THEN <<>>
    ELSE LET val == residual[i + 1] - prev - 1
             ctx == 32 + Min(zuck_encode(prev_residual), 79)
         IN << <<RESIDUALS_IDX_BEGIN + ctx, val>> >>
            \o AddValsResidualLoop(i + 1, residual, residual[i + 1], val)

\* 1784-1800
AddValsResiduals(residual, curr_node) ==
    IF Len(residual) = 0 THEN <<>>
    ELSE LET first == int2nat(residual[1] - curr_node)
             ctx == Min(zuck_encode(Len(residual)), 31)
         IN << <<RESIDUALS_IDX_BEGIN + ctx, first>> >>
            \o AddValsResidualLoop(1, residual, residual[1], first)

\* 1724-1801: the values of the intervals and of the residuals
AddValsExtras(min_interval_len, curr_node, blockPushes, extras, iv) ==
    blockPushes
    \o AddValsIntervals(0, iv.left, iv.len, curr_node, min_interval_len, 0, 0, 0)
    \o AddValsResiduals(IF Len(extras) = 0 THEN <<>>
                        ELSE IF min_interval_len # 0 THEN iv.residuals
                        ELSE extras,
                        curr_node)

\* 1724-1736: intervalize is called when there are extras and intervals are on
AddValsIntervalize(min_interval_len, curr_node, blockPushes, extras) ==
    AddValsExtras(min_interval_len, curr_node, blockPushes, extras,
                  IF Len(extras) > 0 /\ min_interval_len # 0
                  THEN intervalize(extras, min_interval_len)
                  ELSE NoIntervals)

\* 1702-1722: the last block and the rest of the list, after the loop
AddValsAfterLoop(min_interval_len, curr_node, curr_list, ref_len, s) ==
    AddValsIntervalize(min_interval_len, curr_node,
                       IF s.copying /\ s.k < ref_len
                       THEN Append(s.pushes, AddValsBlockPush(s))
                       ELSE s.pushes,
                       s.extras \o SubSeq(curr_list, s.j + 1, Len(curr_list)))

add_vals(min_interval_len, curr_node, reference, ref_list, curr_list) ==
    AddValsAfterLoop(min_interval_len, curr_node, curr_list,
                     IF reference = 0 THEN 0 ELSE Len(ref_list),
                     AddValsLoop(curr_list, ref_list,
                                 IF reference = 0 THEN 0 ELSE Len(ref_list),
                                 [j |-> 0, k |-> 0, copying |-> TRUE,
                                  curr_block_len |-> 0, is_first |-> TRUE,
                                  is_even_block |-> TRUE, extras |-> <<>>,
                                  blocks |-> <<>>, pushes |-> <<>>]))

\* CompressionVectors (45-51): the scratch vectors of the instance, empty
\* when it is built
EmptyVectors ==
    [blocks |-> <<>>, extras |-> <<>>, left |-> <<>>, len |-> <<>>, residuals |-> <<>>]

\* 1309-1313: diff_comp empties the five vectors before it uses them
ClearVectors(cv) ==
    [cv EXCEPT !.blocks = <<>>, !.extras = <<>>, !.left = <<>>, !.len = <<>>,
               !.residuals = <<>>]

\* 1336-1401: the scan pushes onto what the vectors hold
DiffScanOn(cv, reference, ref_list, curr_list) ==
    LET scan == DiffScan(reference, ref_list, curr_list)
    IN [blocks |-> cv.blocks \o scan.blocks, extras |-> cv.extras \o scan.extras]

\* diff_comp called on an instance whose scratch vectors hold cv
diff_comp_on(cv, window_size, min_interval_len, curr_node, reference, ref_list, curr_list, huff) ==
    DiffCompScanned(window_size, min_interval_len, curr_node, reference, huff,
                    DiffScanOn(ClearVectors(cv), reference, ref_list, curr_list))

\* the scratch vectors as diff_comp leaves them
VectorsOf(d) ==
    [blocks |-> d.blocks, extras |-> d.extras, left |-> d.left, len |-> d.len,
     residuals |-> d.residuals]

\* the scratch vectors as add_vals leaves them, given its loop's last state
\* s: extras, left, len and residuals are emptied first (1625-1628) and
\* intervalize is called as at 1726-1736; blocks is not emptied and gets the
\* lengths pushed at 1684-1687 and 1703-1706
AddValsVectorsAfterLoop(cv, min_interval_len, curr_list, ref_len, extras, s) ==
    LET iv == IF Len(extras) > 0 /\ min_interval_len # 0
              THEN intervalize(extras, min_interval_len)
              ELSE NoIntervals
    IN [blocks |-> cv.blocks \o s.blocks
                     \o (IF s.copying /\ s.k < ref_len
                         THEN <<s.curr_block_len>> ELSE <<>>),
        extras |-> extras,
        left |-> iv.left, len |-> iv.len, residuals |-> iv.residuals]

AddValsVectorsLoop(cv, min_interval_len, curr_list, ref_len, s) ==
    AddValsVectorsAfterLoop(cv, min_interval_len, curr_list, ref_len,
                            s.extras \o SubSeq(curr_list, s.j + 1, Len(curr_list)), s)

add_vals_vectors(cv, min_interval_len, reference, ref_list, curr_list) ==
    AddValsVectorsLoop(cv, min_interval_len, curr_list,
                       IF reference = 0 THEN 0 ELSE Len(ref_list),
                       AddValsLoop(curr_list, ref_list,
                                   IF reference = 0 THEN 0 ELSE Len(ref_list),
                                   [j |-> 0, k |-> 0, copying |-> TRUE,
                                    curr_block_len |-> 0, is_first |-> TRUE,
                                    is_even_block |-> TRUE, extras |-> <<>>,
                                    blocks |-> <<>>, pushes |-> <<>>]))

\* values[ctx].push(val) for every push, in order
RECURSIVE PushAll(_, _)
PushAll(values, pushes) ==
    IF pushes = <<>> THEN values
    ELSE PushAll([values EXCEPT ![Head(pushes)[1]] = Append(@, Head(pushes)[2])],
                 Tail(pushes))

----------------------------------------------------------------------------
(* The Huffman engine (huffman_zuckerli, outside src/), from section 4.3:   *)
(* per context a prefix code for exactly the values of its histogram, and   *)
(* a header that lists, per context, the symbols and their code lengths.    *)
(* The model gives every symbol of a context the same length, the bits      *)
(* needed to tell the context's distinct symbols apart.                     *)

RECURSIVE BitsFor(_)
BitsFor(k) == IF k <= 2 THEN 1 ELSE 1 + BitsFor((k + 1) \div 2)

HasCode(values, ctx, val) ==
    ctx \in DOMAIN values /\ val \in Range(values[ctx])

HuffLen(values, ctx) == BitsFor(Cardinality(Range(values[ctx])))

\* the header of one context whose recorded values are vs: the number of
\* symbols, then each symbol and its code length
ContextHeaderBits(vs) ==
    LET syms == SortedSeq(Range(vs))
    IN GammaLen(Len(syms))
       + SumSeq([k \in 1..Len(syms) |->
                   GammaLen(syms[k]) + GammaLen(BitsFor(Len(syms)))])

\* huff.init(&values, graph_obs), 1193: the headers of all the contexts
HeaderBits(values) ==
    LET used == SortedSeq({c \in DOMAIN values : values[c] # <<>>})
    IN (NUM_CONTEXTS - Len(used)) * ContextHeaderBits(<<>>)
       + SumSeq([k \in 1..Len(used) |-> ContextHeaderBits(values[used[k]])])

\* the bits written for one field; values is the histogram the Huffman
\* codes were built from
TokBits(tok, values) ==
    IF tok.code = "unary" THEN UnaryLen(tok.val)
    ELSE IF tok.code = "gamma" THEN GammaLen(tok.val)
    ELSE IF tok.code = "zeta" THEN ZetaLen(tok.val, out_zeta_k)
    ELSE HuffLen(values, tok.ctx)

\* Ok(graph_obs.written_bits - written_data_at_start), 1611
WrittenBy(toks, values) == SumSeq([i \in 1..Len(toks) |-> TokBits(toks[i], values)])

----------------------------------------------------------------------------
(* State *)

VARIABLES
    cin,    \* single-node codec: the input (x, r, window, min interval, lists)
    cpc,    \* single-node codec: "input", "encoded", "intervalized", "decoded"
    cenc,   \* single-node codec: the result of diff_comp
    civ,    \* single-node codec: the result of intervalize
    cdec,   \* single-node codec: the result of decode_list
    bv,     \* compress: self (n, the lists node_iter yields, out_* parameters)
    pc,     \* compress: "pass1", "pass2", "done", "panic" ("idle": not called)
    curr,   \* compress: node_iter.curr, the last node returned (-1: none)
    list,             \* compress: the cyclic array of previous lists
    list_len,         \* compress: the length of each list
    ref_count,        \* compress: the depth of the references of each list
    best_candidates,  \* compress: per node, <<best_cand, best_ref>>
    values,           \* compress: per context, the values recorded by pass 1
    graph_obs,        \* compress: the fields written to the graph stream
    offsets_obs,      \* compress: the values written to the offsets stream
    bit_offset,       \* compress: written_bits at the start of the last node
    compression_vectors,  \* self.compression_vectors, the scratch vectors
    earlier,          \* what an earlier call of compress on this instance produced
    it,               \* a BVGraphNodeIterator over the written graph
    ret,              \* what the last call on the iterator or the graph returned
    log,              \* the node ids next() has returned, in order
    calls,            \* the number of calls of next() made on the iterator
    ra,               \* random access: the outdegree cache, the two readers, the last call
    main,             \* the decompress binary: its position, the properties read, the builder
    stored            \* store: what it returned and the files it wrote

codecVars == <<cin, cpc, cenc, civ, cdec>>

compressVars == <<bv, pc, curr, list, list_len, ref_count, best_candidates,
                  values, graph_obs, offsets_obs, bit_offset,
                  compression_vectors, earlier>>

readVars == <<it, ret, log, calls, ra>>

toolVars == <<main, stored>>

vars == <<codecVars, compressVars, readVars, toolVars>>

Vals == 0..MaxVal

\* the strictly increasing lists over Vals
IncLists == {SortedSeq(S) : S \in SUBSET Vals}

\* the non-decreasing lists over Vals of length at most MaxLen: successor
\* lists as the encoder may be handed them, repeated successors included
SuccLists ==
    UNION {{s \in [1..k -> Vals] : NonDecreasing(s)} : k \in 0..MaxLen}

\* the list of scenario E4 of the specification
ListE4 == <<5, 6, 7, 8, 10, 12>>

\* a list with two runs of consecutive integers and one isolated element
ListTwoRuns == <<0, 1, 3, 4, 6>>

NoEnc == [status |-> "none", blocks |-> <<>>, extras |-> <<>>, left |-> <<>>,
          len |-> <<>>, residuals |-> <<>>, toks |-> <<>>]

NoDec == [list |-> <<>>, underflow |-> FALSE, eof |-> FALSE, p |-> 0]

\* Option::None as a returned value; Some(v) is v
None == -1

\* no iterator has been made
NoIterator ==
    [status |-> "none", n |-> 0, curr |-> -1, cyclic_buffer_size |-> 1, ibs |-> 0,
     window |-> <<>>, outd |-> <<>>, ref_node |-> -1, ref_list |-> <<>>]

\* the graph has not been loaded for random access; frames are the nodes of
\* the calls of decode_list that have not returned, the outermost first, and
\* fields what the stream holds for each node
NotLoaded ==
    [status |-> "none", cached_node |-> None, cached_outdegree |-> None,
     cached_ptr |-> None, graph_pos |-> 0, outd_pos |-> 0,
     op |-> "none", x |-> -1, ret |-> None, list |-> <<>>, frames |-> <<>>,
     fields |-> <<>>]

\* nothing has been read yet
ReadIdle ==
    /\ it = NoIterator
    /\ ret = None
    /\ log = <<>>
    /\ calls = 0
    /\ ra = NotLoaded

\* the decompress binary has not been started
NotStarted ==
    [pc |-> "none", props |-> <<>>, args |-> <<>>, builder |-> <<>>, loaded |-> <<>>]

\* store has not been called
NotStored == [result |-> "none", files |-> {}, properties |-> <<>>]

ToolIdle ==
    /\ main = NotStarted
    /\ stored = NotStored

\* compress has not been called before on this instance
NotCalledBefore ==
    [again |-> FALSE, vectors |-> EmptyVectors, best_candidates |-> <<>>,
     graph_obs |-> <<>>, offsets_obs |-> <<>>]

\* compress has not been called
CompressIdle ==
    /\ bv = [n |-> 0, succ |-> <<>>, out_window_size |-> 0,
             out_max_ref_count |-> 0, out_min_interval_len |-> 0]
    /\ pc = "idle"
    /\ curr = -1
    /\ list = <<>>
    /\ list_len = <<>>
    /\ ref_count = <<>>
    /\ best_candidates = <<>>
    /\ values = <<>>
    /\ graph_obs = <<>>
    /\ offsets_obs = <<>>
    /\ bit_offset = 0
    /\ compression_vectors = EmptyVectors
    /\ earlier = NotCalledBefore
    /\ ReadIdle
    /\ ToolIdle

----------------------------------------------------------------------------
(* The single-node codec: diff_comp, intervalize and decode_list applied    *)
(* to one node x with reference r, reference list ref and list cur.         *)

CodecInit ==
    /\ cin \in [x : 0..MaxX, window_size : {0, MaxW}, r : 0..MaxW,
                min_interval_len : 0..MaxLmin,
                ref : IncLists, cur : SuccLists \cup {ListE4, ListTwoRuns}]
    /\ cin.r <= cin.window_size
    /\ cpc = "input"
    /\ cenc = NoEnc
    /\ civ = NoIntervals
    /\ cdec = NoDec
    /\ CompressIdle

\* diff_comp with the Huffman encoder, as pass 2 calls it (1233-1241)
CodecEncode ==
    /\ cpc = "input"
    /\ cenc' = diff_comp(cin.window_size, cin.min_interval_len, cin.x, cin.r,
                         cin.ref, cin.cur, TRUE)
    /\ cpc' = "encoded"
    /\ UNCHANGED <<cin, civ, cdec, compressVars, readVars, toolVars>>

\* intervalize on the list itself (the extras of a list without reference);
\* diff_comp calls it only when the minimum interval length is not 0 (1454)
CodecIntervalize ==
    /\ cpc = "input"
    /\ cin.min_interval_len # 0
    /\ civ' = intervalize(cin.cur, cin.min_interval_len)
    /\ cpc' = "intervalized"
    /\ UNCHANGED <<cin, cenc, cdec, compressVars, readVars, toolVars>>

TokVals(toks) == [i \in 1..Len(toks) |-> toks[i].val]

\* decode_list of one node whose outdegree is `degree`, whose fields are
\* vals from index p on and whose reference list (when it has one) is ref
decode_node(window_size, min_interval_len, x, degree, vals, p, ref) ==
    IF degree = 0
    THEN [list |-> <<>>, underflow |-> FALSE, eof |-> FALSE, p |-> p]
    ELSE LET f == decode_fields(window_size, min_interval_len, x, degree, vals, p,
                                [r \in 1..window_size |-> Len(ref)])
         IN [list |-> decode_merge(f, ref), underflow |-> f.underflow,
             eof |-> f.eof, p |-> f.p]

\* decode_list on the fields diff_comp wrote, with the declared outdegree
CodecDecode ==
    /\ cpc = "encoded"
    /\ cenc.status = "ok"
    /\ cdec' = decode_node(cin.window_size, cin.min_interval_len, cin.x,
                           Len(cin.cur), TokVals(cenc.toks), 1, cin.ref)
    /\ cpc' = "decoded"
    /\ UNCHANGED <<cin, cenc, civ, compressVars, readVars, toolVars>>

CodecNext == CodecEncode \/ CodecIntervalize \/ CodecDecode

SpecCodec == CodecInit /\ [][CodecNext]_vars

----------------------------------------------------------------------------
(* Properties of the single-node codec *)

ValidInput == StrictlyIncreasing(cin.cur)

\* C1: for strictly increasing lists, decode_list applied to the fields
\* diff_comp emits returns exactly S(x): diff_comp succeeds, and the decoded
\* list equals the input, is strictly increasing and has the declared length
RoundTripNode ==
    /\ (cpc = "encoded" /\ ValidInput) => cenc.status = "ok"
    /\ (cpc = "decoded" /\ ValidInput) =>
          /\ cdec.list = cin.cur
          /\ StrictlyIncreasing(cdec.list)
          /\ Len(cdec.list) = Len(cin.cur)
          /\ ~cdec.underflow /\ ~cdec.eof

\* a decoded node with a reference, a skipped and a copied block and an
\* interval
RoundTripNodeWitness ==
    /\ cpc = "decoded" /\ ValidInput
    /\ cin.r > 0 /\ Len(cenc.blocks) >= 2
    /\ Len(cenc.left) >= 1
    /\ cdec.list = cin.cur

\* C7 (as claimed): encoding a list with a repeated successor fails, for
\* every minimum interval length and every reference
RepeatedSuccessorRejected ==
    (cpc = "encoded" /\ ~StrictlyIncreasing(cin.cur)) => cenc.status # "ok"

\* the intervals of an intervalize result, as a set of <<left, len>> pairs
IntervalSet(iv) == {<<iv.left[i], iv.len[i]>> : i \in 1..Len(iv.left)}

\* C8: for a strictly increasing input and a minimum interval length >= 1,
\* the expanded intervals and the residuals are pairwise disjoint, together
\* they are the input, the residuals keep their order, the intervals come
\* in increasing order of left, and the returned count is their number
IntervalizerPartition ==
    (cpc = "intervalized" /\ ValidInput) =>
        LET expanded == ExpandIntervals(civ.left, civ.len)
        IN /\ Len(civ.left) = Len(civ.len)
           /\ civ.n_interval = Len(civ.left)
           /\ \A i \in 1..Len(civ.len) : civ.len[i] >= 1
           /\ Cardinality(Range(expanded)) = Len(expanded)
           /\ Range(expanded) \cap Range(civ.residuals) = {}
           /\ Len(expanded) + Len(civ.residuals) = Len(cin.cur)
           /\ SortedSeq(Range(expanded) \cup Range(civ.residuals)) = cin.cur
           /\ StrictlyIncreasing(civ.residuals)
           /\ StrictlyIncreasing(civ.left)

\* two intervals and a residual out of one input
IntervalizerPartitionWitness ==
    /\ cpc = "intervalized"
    /\ ValidInput
    /\ Len(civ.left) >= 2
    /\ Len(civ.residuals) >= 1

\* the maximal runs of consecutive integers of a strictly increasing list,
\* as <<first element, length>> pairs
RunStarts(E) == {i \in 1..Len(E) : i = 1 \/ E[i - 1] + 1 # E[i]}

RunLength(E, i) ==
    CHOOSE n \in 1..(Len(E) - i + 1) :
        /\ \A k \in 0..(n - 1) : E[i + k] = E[i] + k
        /\ (i + n > Len(E) \/ E[i + n] # E[i] + n)

MaximalRuns(E) == {<<E[i], RunLength(E, i)>> : i \in RunStarts(E)}

RunElements(runs) == UNION {{run[1] + k : k \in 0..(run[2] - 1)} : run \in runs}

\* the intervals are exactly the maximal runs of length >= least, one
\* interval per run, and the residuals exactly the other elements
IntervalsAreRunsOfAtLeast(least) ==
    LET runs == {run \in MaximalRuns(cin.cur) : run[2] >= least}
    IN /\ IntervalSet(civ) = runs
       /\ Len(civ.left) = Cardinality(runs)
       /\ Range(civ.residuals) = Range(cin.cur) \ RunElements(runs)

\* C9 (as claimed): every maximal run of length >= L_min is one interval
IntervalizerMaximal ==
    (cpc = "intervalized" /\ ValidInput) =>
        IntervalsAreRunsOfAtLeast(cin.min_interval_len)

\* C9 (amended): every maximal run of length >= L_min and >= 2 is one
\* interval covering the whole run, every other element is a residual; with
\* L_min = 2 the list of scenario E4 gives the interval (5,4) and the
\* residuals [10,12]
IntervalizerMaximalFromTwo ==
    /\ (cpc = "intervalized" /\ ValidInput) =>
          IntervalsAreRunsOfAtLeast(IF cin.min_interval_len < 2 THEN 2
                                    ELSE cin.min_interval_len)
    /\ (cpc = "intervalized" /\ cin.cur = ListE4 /\ cin.min_interval_len = 2) =>
          /\ civ.left = <<5>> /\ civ.len = <<4>>
          /\ civ.residuals = <<10, 12>>

\* scenario E4 intervalized with L_min = 2
IntervalizerMaximalWitness ==
    /\ cpc = "intervalized" /\ cin.cur = ListE4 /\ cin.min_interval_len = 2
    /\ civ.n_interval = 1

\* position q (1-based) of the reference list lies in a copy run of the
\* blocks b: the runs alternate copy / skip from position 1 on, and the
\* positions after the last block are copied iff the block count is even
InCopyRun(b, q) ==
    LET covering == {i \in 1..Len(b) : q <= SumSeq(SubSeq(b, 1, i))}
    IN IF covering = {} THEN Len(b) % 2 = 0
       ELSE (CHOOSE i \in covering : \A k \in covering : i <= k) % 2 = 1

\* C10: with a reference, the block lengths sum to at most |S(cand)| and an
\* element of S(cand) lies in a copy run iff it is in S(x)
CopyBlocksPartition ==
    (cpc = "encoded" /\ ValidInput /\ cin.r > 0) =>
        /\ \A i \in 1..Len(cenc.blocks) : cenc.blocks[i] >= 0
        /\ SumSeq(cenc.blocks) <= Len(cin.ref)
        /\ \A q \in 1..Len(cin.ref) :
              InCopyRun(cenc.blocks, q) <=> cin.ref[q] \in Range(cin.cur)

\* a reference list cut into three explicit blocks
CopyBlocksPartitionWitness ==
    /\ cpc = "encoded" /\ ValidInput /\ cin.r > 0
    /\ Len(cenc.blocks) >= 3

\* the successors the written residual fields stand for: the first is
\* relative to the node (1557), each later one is the gap to its
\* predecessor minus one (1572, 1596)
RECURSIVE ResidualsOfToks(_, _, _, _)
ResidualsOfToks(toks, t, prev, first) ==
    IF t > Len(toks) THEN <<>>
    ELSE IF toks[t].role # "residual" THEN ResidualsOfToks(toks, t + 1, prev, first)
    ELSE LET v == IF first THEN prev + nat2int(toks[t].val)
                  ELSE prev + toks[t].val + 1
         IN <<v>> \o ResidualsOfToks(toks, t + 1, v, FALSE)

\* the elements of the reference list that lie in the copy runs of blocks b
CopiedElements(b, ref) == {ref[q] : q \in {p \in 1..Len(ref) : InCopyRun(b, p)}}

\* C11: for a strictly increasing list, the elements copied from the
\* reference list, the elements of the emitted intervals and the emitted
\* residuals are pairwise disjoint and together they are S(x); the extras
\* are S(x) minus S(cand), and all of S(x) without a reference
EncoderPartition ==
    (cpc = "encoded" /\ ValidInput) =>
        LET copied == IF cin.r = 0 THEN {}
                      ELSE CopiedElements(cenc.blocks, cin.ref)
            expanded == ExpandIntervals(cenc.left, cenc.len)
            residuals == ResidualsOfToks(cenc.toks, 1, cin.x, TRUE)
        IN /\ cenc.status = "ok"
           /\ copied \cap Range(expanded) = {}
           /\ copied \cap Range(residuals) = {}
           /\ Range(expanded) \cap Range(residuals) = {}
           /\ Cardinality(Range(expanded)) = Len(expanded)
           /\ Cardinality(Range(residuals)) = Len(residuals)
           /\ copied \cup Range(expanded) \cup Range(residuals) = Range(cin.cur)
           /\ Cardinality(copied) + Len(expanded) + Len(residuals) = Len(cin.cur)
           /\ cenc.extras = SortedSeq(IF cin.r = 0 THEN Range(cin.cur)
                                      ELSE Range(cin.cur) \ Range(cin.ref))

\* a list made of copied elements, an interval and a residual at once
EncoderPartitionWitness ==
    /\ cpc = "encoded" /\ ValidInput /\ cin.r > 0
    /\ CopiedElements(cenc.blocks, cin.ref) # {}
    /\ Len(cenc.left) >= 1
    /\ Len(ResidualsOfToks(cenc.toks, 1, cin.x, TRUE)) >= 1
    /\ Range(cin.ref) \ Range(cin.cur) # {}


----------------------------------------------------------------------------
(* compress, bvgraph_huffman_out.rs:1084-1247 *)

\* the lists of the cyclic array are allocated as InitialListLen zeros (1024
\* of them at 1095); a list is replaced whole (1131, 1226) before it is read
InitialListLen == 4

\* i64::MAX (1135) cut to TLC's 32-bit integers; every bit length of the
\* model is far below it
BEST_COMP_MAX == 2147483647

\* the minimum interval lengths of compress's inputs: 0 (no intervals) and
\* the 2 of the specification's scenarios
MinIntervalLens == {0, 2}

\* the graphs of MaxNodes nodes: every node has a strictly increasing list
\* of successors among the nodes
Graphs == [0..(MaxNodes - 1) -> {SortedSeq(S) : S \in SUBSET (0..(MaxNodes - 1))}]

\* the graph of scenario E3 of the specification: every node has the list
\* [1,2,3,4]
GraphE3 == [x \in 0..(MaxNodes - 1) |-> <<1, 2, 3, 4>>]

\* the graph of scenario E5 of the specification, whose nodes 0 and 1 have
\* the lists [0,1,2,3,7,9] and [0,1,2,3,8,9]; the nodes after them have none
GraphE5 ==
    [x \in 0..(MaxNodes - 1) |->
       IF x = 0 THEN <<0, 1, 2, 3, 7, 9>>
       ELSE IF x = 1 THEN <<0, 1, 2, 3, 8, 9>>
       ELSE <<>>]

\* a graph whose node 1 copies from node 0 in three blocks (copy 4, skip 1,
\* copy 2, skip the rest) and whose node 2 is node 1 plus one residual
GraphThreeBlocks ==
    [x \in 0..(MaxNodes - 1) |->
       IF x = 0 THEN <<0, 1, 2, 3, 4, 5, 6, 7>>
       ELSE IF x = 1 THEN <<0, 1, 2, 3, 5, 6>>
       ELSE IF x = 2 THEN <<0, 1, 2, 3, 5, 6, 9>>
       ELSE <<>>]

\* the context of the outdegree of curr_node in pass 1, 1116-1124
OutdCtxPass1(curr_node) ==
    IF curr_node = 0 \/ curr_node % 32 = 0 THEN 0
    ELSE 1 + Min(zuck_encode((curr_node % 32) + 1), 30)

\* mutant of OutdCtxPass2: the bucket is not capped at 30
OutdCtxPass2Uncapped(curr_node) ==
    IF curr_node = 0 \/ curr_node % 32 = 0 THEN 0
    ELSE 1 + zuck_encode((curr_node % 32) + 1)

\* the context of the outdegree of curr_node in pass 2, 1212-1218
OutdCtxPass2(curr_node) ==
    IF curr_node = 0 \/ curr_node % 32 = 0 THEN 0
    ELSE 1 + Min(zuck_encode((curr_node % 32) + 1), 30)

\* node_iter.has_next(), 435-437
has_next == curr < bv.n - 1

\* graph_obs.written_bits
WrittenBits(obs) == SumSeq([i \in 1..Len(obs) |-> obs[i].bits])

\* a field as it lies in the graph stream: its bits, and the node whose
\* record it belongs to (-1 for the Huffman headers)
Written(tok, node, vals) ==
    [role |-> tok.role, val |-> tok.val, code |-> tok.code, ctx |-> tok.ctx,
     bits |-> TokBits(tok, vals), node |-> node]

\* the first field of toks the Huffman encoder has no code for (0: none)
FirstUncoded(toks, vals) ==
    LET bad == {i \in 1..Len(toks) :
                  toks[i].code = "huffman" /\ ~HasCode(vals, toks[i].ctx, toks[i].val)}
    IN IF bad = {} THEN 0 ELSE CHOOSE i \in bad : \A k \in bad : i <= k

\* mutant of Eligible: a candidate of depth out_max_ref_count is accepted
EligibleUpTo(rc, llen, cand, max_ref_count) ==
    rc[cand] <= max_ref_count /\ llen[cand] # 0

\* 1144-1145
Eligible(rc, llen, cand, max_ref_count) ==
    rc[cand] < max_ref_count /\ llen[cand] # 0

\* mutant of Better: a candidate as short as the best one replaces it
BetterOrEqual(comp, best_comp) == comp <= best_comp

\* 1157
Better(comp, best_comp) == comp < best_comp

\* mutant of BestOf: the slot of the candidate is kept without its distance
BestOfSlotOnly(r, cand, comp, best) ==
    IF Better(comp, best.best_comp)
    THEN [best EXCEPT !.best_comp = comp, !.best_cand = cand,
                      !.best_ref = IF best.best_ref < 0 THEN r ELSE @]
    ELSE best

\* 1157-1161: the candidate is kept when it is shorter than the best
BestOf(r, cand, comp, best) ==
    IF Better(comp, best.best_comp)
    THEN [best EXCEPT !.best_comp = comp, !.best_cand = cand, !.best_ref = r]
    ELSE best

\* 1143-1162: one candidate; d is what diff_comp returns for it, and an Err
\* fails the unwrap at 1156
BestTry(r, cand, eligible, d, best) ==
    IF best.failed \/ ~eligible THEN best
    ELSE IF d.status # "ok" THEN [best EXCEPT !.failed = TRUE, !.cv = VectorsOf(d)]
    ELSE BestOf(r, cand, WrittenBy(d.toks, values), [best EXCEPT !.cv = VectorsOf(d)])

I32_MAX == 2147483647

\* 1144: self.out_max_ref_count as i32, the low 32 bits of the usize read as
\* a signed number.  The record holds the usize in two parts, its low 31
\* bits (out_max_ref_count) and the bits above them (out_max_ref_count_hi)
MaxRefCountAsI32 ==
    IF bv.out_max_ref_count_hi % 2 = 1
    THEN bv.out_max_ref_count - I32_MAX - 1
    ELSE bv.out_max_ref_count

\* 1142-1163: the loop over the candidates, from reference r on
RECURSIVE BestLoop(_, _, _, _, _, _)
BestLoop(r, curr_node, lst, llen, rc, best) ==
    IF r >= bv.out_window_size + 1 THEN best
    ELSE BestLoop(r + 1, curr_node, lst, llen, rc,
           BestTry(r, (curr_node + bv.out_window_size + 1 - r) % (bv.out_window_size + 1),
                   Eligible(rc, llen,
                            (curr_node + bv.out_window_size + 1 - r) % (bv.out_window_size + 1),
                            MaxRefCountAsI32),
                   diff_comp_on(best.cv, bv.out_window_size, bv.out_min_interval_len, curr_node, r,
                                lst[(curr_node + bv.out_window_size + 1 - r) % (bv.out_window_size + 1)],
                                lst[curr_node % (bv.out_window_size + 1)], FALSE),
                   best))

\* the number of arcs of graph g: the field m (71), set by the builder (2236)
Arcs(g) == SumSeq([i \in 1..Cardinality(DOMAIN g) |-> Len(g[i - 1])])

\* the locals of compress as 1089-1107 set them, on a freshly built
\* instance holding one of the graphs with one of the parameter triples
\* <<window size, max ref count, min interval length>>; his are the bits of
\* the max ref count from bit 31 up (0 when it is below 2^31)
CompressInitOn(graphs, params, his) ==
    /\ cin = [x |-> 0, window_size |-> 0, r |-> 0, min_interval_len |-> 0,
              ref |-> <<>>, cur |-> <<>>]
    /\ cpc = "idle"
    /\ cenc = NoEnc
    /\ civ = NoIntervals
    /\ cdec = NoDec
    /\ \E g \in graphs, q \in params, hi \in his :
          bv = [n |-> Cardinality(DOMAIN g), m |-> Arcs(g), succ |-> g,
                out_window_size |-> q[1], out_max_ref_count |-> q[2],
                out_max_ref_count_hi |-> hi,
                out_min_interval_len |-> q[3], out_zeta_k |-> 3]
    /\ pc = "pass1"
    /\ curr = -1
    /\ list = [i \in 0..bv.out_window_size |-> [k \in 1..InitialListLen |-> 0]]
    /\ list_len = [i \in 0..bv.out_window_size |-> 0]
    /\ ref_count = [i \in 0..bv.out_window_size |-> 0]
    /\ best_candidates = [x \in 0..(bv.n - 1) |-> <<0, 0>>]
    /\ values = [c \in 0..(NUM_CONTEXTS - 1) |-> <<>>]
    /\ graph_obs = <<>>
    /\ offsets_obs = <<>>
    /\ bit_offset = 0
    /\ compression_vectors = EmptyVectors
    /\ earlier = NotCalledBefore
    /\ ReadIdle
    /\ ToolIdle

\* the same with a max ref count below 2^31
CompressInit(graphs, params) == CompressInitOn(graphs, params, {0})

Init ==
    CompressInit(Graphs \cup {GraphE3, GraphE5, GraphThreeBlocks},
                 (0..MaxWindow) \X (0..MaxRefCount) \X MinIntervalLens)

\* one iteration of the loop of pass 1, 1111-1179
Pass1Node ==
    /\ pc = "pass1"
    /\ has_next
    /\ \E curr_node \in {curr + 1} :
       \E outd \in {Len(bv.succ[curr_node])} :
       \E curr_idx \in {curr_node % (bv.out_window_size + 1)} :
       \E values1 \in {[values EXCEPT ![OUTD_IDX_BEGIN + OutdCtxPass1(curr_node)] =
                                         Append(@, outd)]} :
       \E list1 \in {[list EXCEPT ![curr_idx] = bv.succ[curr_node]]} :
       \E list_len1 \in {[list_len EXCEPT ![curr_idx] = outd]} :
       \E ref_count1 \in {[ref_count EXCEPT ![curr_idx] = -1]} :
       \E best \in {BestLoop(0, curr_node, list1, list_len1, ref_count1,
                             [best_comp |-> BEST_COMP_MAX, best_cand |-> -1,
                              best_ref |-> -1, failed |-> FALSE,
                              cv |-> compression_vectors])} :
          /\ curr' = curr_node
          /\ list' = list1
          /\ list_len' = list_len1
          /\ IF outd = 0
             THEN /\ values' = values1
                  /\ UNCHANGED <<pc, ref_count, best_candidates, compression_vectors>>
             ELSE IF best.failed \/ best.best_cand < 0
             THEN /\ pc' = "panic"
                  /\ values' = values1
                  /\ ref_count' = ref_count1
                  /\ compression_vectors' = best.cv
                  /\ UNCHANGED best_candidates
             ELSE /\ ref_count' = [ref_count1 EXCEPT
                                     ![curr_idx] = ref_count1[best.best_cand] + 1]
                  /\ compression_vectors' =
                        add_vals_vectors(best.cv, bv.out_min_interval_len,
                                         best.best_ref, list1[best.best_cand],
                                         list1[curr_idx])
                  /\ values' = PushAll(values1,
                                       add_vals(bv.out_min_interval_len, curr_node,
                                                best.best_ref, list1[best.best_cand],
                                                list1[curr_idx]))
                  /\ best_candidates' = [best_candidates EXCEPT
                                           ![curr_node] = <<best.best_cand, best.best_ref>>]
                  /\ UNCHANGED pc
    /\ UNCHANGED <<bv, graph_obs, offsets_obs, bit_offset, earlier, codecVars, readVars, toolVars>>

\* between the passes, 1181-1198: the Huffman headers are written and the
\* iterator is restarted
WriteHeaders ==
    /\ pc = "pass1"
    /\ ~has_next
    /\ graph_obs' = Append(graph_obs,
                           [role |-> "header", val |-> 0, code |-> "header",
                            ctx |-> NoCtx, bits |-> HeaderBits(values), node |-> -1])
    /\ curr' = -1
    /\ pc' = "pass2"
    /\ UNCHANGED <<bv, list, list_len, ref_count, best_candidates, values,
                   offsets_obs, bit_offset, compression_vectors, earlier, codecVars,
                   readVars, toolVars>>

\* mutant of write_offset's argument: the position itself is written
OffsetArgAbsolute(written_bits, offset) == written_bits

\* the argument of write_offset at 1207 and 1245
OffsetArg(written_bits, offset) == written_bits - offset

\* one iteration of the loop of pass 2, 1199-1243.  toks are the fields of
\* the node, bad the first of them the Huffman encoder has no code for
\* (0: none), at which write_next fails
Pass2Node ==
    /\ pc = "pass2"
    /\ has_next
    /\ \E curr_node \in {curr + 1} :
       \E outd \in {Len(bv.succ[curr_node])} :
       \E curr_idx \in {curr_node % (bv.out_window_size + 1)} :
       \E list1 \in {[list EXCEPT ![curr_idx] = bv.succ[curr_node]]} :
       \E best_cand \in {best_candidates[curr_node][1]} :
       \E d \in {diff_comp_on(compression_vectors, bv.out_window_size,
                              bv.out_min_interval_len, curr_node,
                              best_candidates[curr_node][2], list1[best_cand],
                              list1[curr_idx], TRUE)} :
       \E toks \in {<< Tok("outdegree", outd, "huffman",
                           OUTD_IDX_BEGIN + OutdCtxPass2(curr_node)) >>
                    \o (IF outd > 0 THEN d.toks ELSE <<>>)} :
       \E bad \in {FirstUncoded(toks, values)} :
       \E written \in {IF bad = 0 THEN toks ELSE SubSeq(toks, 1, bad - 1)} :
          /\ curr' = curr_node
          /\ offsets_obs' = Append(offsets_obs,
                                   OffsetArg(WrittenBits(graph_obs), bit_offset))
          /\ bit_offset' = WrittenBits(graph_obs)
          /\ graph_obs' = graph_obs
                            \o [i \in 1..Len(written) |->
                                  Written(written[i], curr_node, values)]
          /\ list' = list1
          /\ list_len' = [list_len EXCEPT ![curr_idx] = outd]
          /\ ref_count' = IF outd > 0 /\ bad # 1
                          THEN [ref_count EXCEPT ![curr_idx] = ref_count[best_cand] + 1]
                          ELSE ref_count
          /\ pc' = IF bad # 0 \/ (outd > 0 /\ d.status # "ok") THEN "panic" ELSE pc
          /\ compression_vectors' = IF outd > 0 /\ bad # 1 THEN VectorsOf(d)
                                    ELSE compression_vectors
    /\ UNCHANGED <<bv, best_candidates, values, earlier, codecVars, readVars, toolVars>>

\* after the loop of pass 2, 1245: the last offset
FinalOffset ==
    /\ pc = "pass2"
    /\ ~has_next
    /\ offsets_obs' = Append(offsets_obs,
                             OffsetArg(WrittenBits(graph_obs), bit_offset))
    /\ pc' = "done"
    /\ UNCHANGED <<bv, curr, list, list_len, ref_count, best_candidates, values,
                   graph_obs, bit_offset, compression_vectors, earlier, codecVars,
                   readVars, toolVars>>

Next == Pass1Node \/ WriteHeaders \/ Pass2Node \/ FinalOffset

Spec == Init /\ [][Next]_vars

----------------------------------------------------------------------------
(* compress called a second time on the same instance, with new writers:   *)
(* the locals are set up again (1089-1107), the instance keeps its scratch *)
(* vectors.                                                                *)

\* mutant of NewBitOffset: the second call goes on from the position the
\* first call ended at
KeptBitOffset == bit_offset

\* 1089: let mut bit_offset: usize = 0
NewBitOffset == 0

\* the second call of compress: what the first call produced is kept aside
CompressAgain ==
    /\ pc = "done"
    /\ ~earlier.again
    /\ earlier' = [again |-> TRUE, vectors |-> compression_vectors,
                   best_candidates |-> best_candidates,
                   graph_obs |-> graph_obs, offsets_obs |-> offsets_obs]
    /\ pc' = "pass1"
    /\ curr' = -1
    /\ list' = [i \in 0..bv.out_window_size |-> [k \in 1..InitialListLen |-> 0]]
    /\ list_len' = [i \in 0..bv.out_window_size |-> 0]
    /\ ref_count' = [i \in 0..bv.out_window_size |-> 0]
    /\ best_candidates' = [x \in 0..(bv.n - 1) |-> <<0, 0>>]
    /\ values' = [c \in 0..(NUM_CONTEXTS - 1) |-> <<>>]
    /\ graph_obs' = <<>>
    /\ offsets_obs' = <<>>
    /\ bit_offset' = NewBitOffset
    /\ UNCHANGED <<bv, compression_vectors, codecVars, readVars, toolVars>>

\* the instances compress is called twice on: every graph, window size and
\* minimum interval length, the reference chains as long as the nodes allow
InitAgain ==
    CompressInit(Graphs \cup {GraphE3, GraphE5, GraphThreeBlocks},
                 (0..MaxWindow) \X {MaxRefCount} \X MinIntervalLens)

NextAgain == Next \/ CompressAgain

SpecAgain == InitAgain /\ [][NextAgain]_vars

----------------------------------------------------------------------------
(* Reading the compressed graph back: load_offsets (2055-2077), outdegree   *)
(* (156-179) and successors (186-195), which is decode_list without a       *)
(* window.  A reader positioned at a bit reads the field that starts there; *)
(* every field is read with the code it was written with.                   *)

\* mutant of load_offsets: the values are stored as read, not accumulated
LoadOffsetsRaw(offs, num_nodes) ==
    [x \in 0..(num_nodes - 1) |-> offs[x + 1]]

\* load_offsets: num_nodes values are read, each added to the ones before
load_offsets(offs, num_nodes) ==
    [x \in 0..(num_nodes - 1) |-> SumSeq(SubSeq(offs, 1, x + 1))]

\* the bit at which field i of the stream starts
StartBit(obs, i) == WrittenBits(SubSeq(obs, 1, i - 1))

\* the field that starts at bit pos (0: pos is not the start of a field)
FieldAt(obs, pos) ==
    LET at == {i \in 1..Len(obs) : StartBit(obs, i) = pos}
    IN IF at = {} THEN 0 ELSE CHOOSE i \in at : TRUE

\* what a read that does not start at an outdegree field returns
Misread == << -1 >>

\* outdegree_internal(x), 773-792: the value read at offsets[x]
OutdegreeAt(obs, offsets, x) ==
    LET i == FieldAt(obs, offsets[x])
    IN IF i = 0 \/ obs[i].role # "outdegree" THEN -1 ELSE obs[i].val

\* successors(x), 186-195 and 795-1081 with window = None: the reference
\* list is decoded recursively (989)
RECURSIVE successors(_, _, _, _, _)
successors(obs, offsets, window_size, min_interval_len, x) ==
    LET i == FieldAt(obs, offsets[x])
        degree == OutdegreeAt(obs, offsets, x)
        f == decode_fields(window_size, min_interval_len, x, degree,
                           [k \in 1..Len(obs) |-> obs[k].val], i + 1,
                           [r \in 1..window_size |->
                              IF x - r >= 0 THEN OutdegreeAt(obs, offsets, x - r)
                              ELSE 0])
    IN IF degree < 0 THEN Misread
       ELSE IF degree = 0 THEN <<>>
       ELSE IF f.reference > x \/ f.underflow \/ f.eof THEN Misread
       ELSE decode_merge(f, IF f.reference > 0
                            THEN successors(obs, offsets, window_size,
                                            min_interval_len, x - f.reference)
                            ELSE <<>>)

----------------------------------------------------------------------------
(* The sequential iterator, bvgraph_huffman_out.rs:352-379, 435-449 and     *)
(* 666-770, over the graph compress has written.  The reader's position ibs *)
(* is the index of the next field of the stream.                            *)

\* the number of calls of next() made on one iterator: one per node and two
\* more after the last node
MaxCalls == MaxNodes + 2

\* mutant of IterHasNext: one more node is announced
IterHasNextUpTo == it.curr < it.n

\* has_next, 435-437
IterHasNext == it.curr < it.n - 1

\* 671 and 751: the number of lists of the window, vec![..; 1024]
WINDOW_LISTS == 1024

\* the list in slot i of the window.  The window keeps the slots that no
\* longer hold their initial list vec![0; in_window_size + 1] (671, 751)
WindowSlot(window, cyclic_buffer_size, i) ==
    IF i \in DOMAIN window THEN window[i]
    ELSE [k \in 1..cyclic_buffer_size |-> 0]

\* the window with list v in slot i
WindowPut(window, cyclic_buffer_size, i, v) ==
    IF v = WindowSlot(window, cyclic_buffer_size, i) THEN window
    ELSE [j \in DOMAIN window \cup {i} |-> IF j = i THEN v ELSE window[j]]

\* 986-987: the reference list of the iterator is the first
\* outd[reference_index] entries of the slot of the window
WindowRef(window, outd, reference_index) ==
    SubSeq(WindowSlot(window, Cardinality(DOMAIN outd), reference_index),
           1, outd[reference_index])

\* mutant of ReferenceIndex: the slot is taken as if the reference were the
\* node before
ReferenceIndexPrevious(x, reference, cyclic_buffer_size) ==
    (x - 1 + cyclic_buffer_size) % cyclic_buffer_size

\* 819-820: the slot of the window holding node x - reference
ReferenceIndex(x, reference, cyclic_buffer_size) ==
    (x - reference + cyclic_buffer_size) % cyclic_buffer_size

\* 982-1081 with a window: the list of node x from its fields f
DecodeWindowMerge(x, cyclic_buffer_size, window, outd, f) ==
    [list |-> decode_merge(f, IF f.reference > 0
                              THEN WindowRef(window, outd,
                                             ReferenceIndex(x, f.reference, cyclic_buffer_size))
                              ELSE <<>>),
     p |-> f.p,
     failed |-> f.underflow \/ f.eof,
     out_of_bounds |-> f.reference > 0
                        /\ ReferenceIndex(x, f.reference, cyclic_buffer_size)
                              >= WINDOW_LISTS,
     ref_node |-> IF f.reference > 0 THEN x - f.reference ELSE -1,
     ref_list |-> IF f.reference > 0
                  THEN WindowRef(window, outd,
                                 ReferenceIndex(x, f.reference, cyclic_buffer_size))
                  ELSE <<>>]

\* decode_list(x, ibs, Some(window), outd), 795-1081: the outdegree has been
\* read from the field at p and stored in outd (807-808)
decode_list_window(window_size, min_interval_len, x, vals, p, window, outd) ==
    IF outd[x % (window_size + 1)] = 0
    THEN [list |-> <<>>, p |-> p + 1, failed |-> p > Len(vals),
          out_of_bounds |-> FALSE, ref_node |-> -1, ref_list |-> <<>>]
    ELSE DecodeWindowMerge(x, window_size + 1, window, outd,
            decode_fields(window_size, min_interval_len, x,
                          outd[x % (window_size + 1)], vals, p + 1,
                          [r \in 1..window_size |->
                             outd[ReferenceIndex(x, r, window_size + 1)]]))

\* iter() and into_iter(), 666-691 and 727-770, on the graph that was
\* written: the reader stands after the Huffman headers, window and outd
\* hold zeros: no slot of the window differs from its initial list
Iter ==
    /\ pc \in {"done", "loaded"}
    /\ it.status = "none"
    /\ it' = [status |-> "ready", n |-> bv.n, curr |-> -1,
              cyclic_buffer_size |-> bv.out_window_size + 1,
              ibs |-> Cardinality({i \in 1..Len(graph_obs) :
                                     graph_obs[i].role = "header"}) + 1,
              window |-> <<>>,
              outd |-> [i \in 0..bv.out_window_size |-> 0],
              ref_node |-> -1, ref_list |-> <<>>]
    /\ UNCHANGED <<ret, log, calls, ra, compressVars, codecVars, toolVars>>

\* 366-376: the slot of the current node after the decoded list is stored
StoreInWindow(slot, d, decoded_list) ==
    [k \in 1..Len(slot) |->
        IF k <= d /\ k <= Len(decoded_list) THEN decoded_list[k] ELSE slot[k]]

\* next(), 352-379
IterNext ==
    /\ it.status = "ready"
    /\ calls < (IF it.n < MaxCalls THEN MaxCalls ELSE it.n + 1)
    /\ calls' = calls + 1
    /\ IF ~IterHasNext
       THEN /\ ret' = None
            /\ UNCHANGED <<it, log>>
       ELSE \E x \in {it.curr + 1} :
            \E curr_idx \in {(it.curr + 1) % it.cyclic_buffer_size} :
            \E vals \in {TokVals(graph_obs)} :
            \E outd1 \in {[it.outd EXCEPT ![curr_idx] = At(vals, it.ibs)]} :
            \E dec \in {decode_list_window(bv.out_window_size, bv.out_min_interval_len,
                                            x, vals, it.ibs, it.window, outd1)} :
            \E d \in {outd1[curr_idx]} :
            \E old \in {WindowSlot(it.window, it.cyclic_buffer_size, curr_idx)} :
            \E slot \in {IF Len(old) < d THEN [k \in 1..d |-> 0] ELSE old} :
               IF dec.failed
               THEN /\ it' = [it EXCEPT !.status = "panic", !.curr = x]
                    /\ UNCHANGED <<ret, log>>
               ELSE IF dec.out_of_bounds \/ curr_idx >= WINDOW_LISTS
               THEN /\ it' = [it EXCEPT !.status = "index_panic", !.curr = x]
                    /\ UNCHANGED <<ret, log>>
               ELSE /\ it' = [it EXCEPT !.curr = x, !.outd = outd1, !.ibs = dec.p,
                                        !.window = WindowPut(it.window,
                                            it.cyclic_buffer_size, curr_idx,
                                            StoreInWindow(slot, d, dec.list)),
                                        !.ref_node = dec.ref_node,
                                        !.ref_list = dec.ref_list]
                    /\ ret' = x
                    /\ log' = Append(log, x)
    /\ UNCHANGED <<ra, compressVars, codecVars, toolVars>>

\* the graph without nodes
EmptyGraph == <<>>

\* <<W, R_max, L_min>> of the end-to-end scenarios of the specification
ScenarioParams == <<3, 3, 2>>

\* the graphs that are written and then read back: as for the second call
\* of compress, the graph without nodes, and the scenario graphs with the
\* parameters of the scenarios
InitIter ==
    \/ CompressInit(Graphs \cup {GraphE3, GraphE5, GraphThreeBlocks, EmptyGraph},
                    (0..MaxWindow) \X {MaxRefCount} \X MinIntervalLens)
    \/ CompressInit({GraphE3, GraphE5}, {ScenarioParams})

NextIter == Next \/ Iter \/ IterNext

SpecIter == InitIter /\ [][NextIter]_vars

----------------------------------------------------------------------------
(* store, bvgraph_huffman_out.rs:197-229: compress, then the three files.   *)

\* the tags of the seven Out codings of the instance that writes the
\* Huffman-coded graph (to_encoding_type, 212-218)
OutCodings ==
    [outdegree_coding |-> "HUFFMAN", block_coding |-> "HUFFMAN",
     residual_coding |-> "HUFFMAN", interval_coding |-> "HUFFMAN",
     reference_coding |-> "UNARY", block_count_coding |-> "GAMMA",
     offset_coding |-> "GAMMA"]

\* 205-219: the properties store builds
StoreProperties ==
    [nodes |-> bv.n, arcs |-> bv.m, window_size |-> bv.out_window_size,
     max_ref_count |-> bv.out_max_ref_count,
     min_interval_len |-> bv.out_min_interval_len,
     zeta_k |-> bv.out_zeta_k, codings |-> OutCodings]

\* 221-228: the three writes, of which `failing` fails ("none": all succeed).
\* The first two results are unwrapped, the third is returned with `?`
StoreWrites(failing) ==
    IF failing = "graph"
    THEN [result |-> "panic", files |-> {}, properties |-> <<>>]
    ELSE IF failing = "offsets"
    THEN [result |-> "panic", files |-> {"graph"}, properties |-> <<>>]
    ELSE IF failing = "properties"
    THEN [result |-> "Err", files |-> {"graph", "offsets"}, properties |-> <<>>]
    ELSE [result |-> "Ok", files |-> {"graph", "offsets", "properties"},
          properties |-> StoreProperties]

\* store after compress has returned (200) or panicked
Store ==
    /\ pc \in {"done", "panic"}
    /\ stored.result = "none"
    /\ IF pc = "panic"
       THEN stored' = [stored EXCEPT !.result = "panic"]
       ELSE \E failing \in {"none", "graph", "offsets", "properties"} :
               stored' = StoreWrites(failing)
    /\ UNCHANGED <<main, codecVars, compressVars, readVars>>

InitStore ==
    CompressInit(Graphs \cup {GraphE3, GraphE5, GraphThreeBlocks},
                 {0, MaxWindow} \X {MaxRefCount} \X MinIntervalLens)

NextStore == Next \/ Store

SpecStore == InitStore /\ [][NextStore]_vars

----------------------------------------------------------------------------
(* The decompress binary, bin/decompress_huff.rs:27-58.  The properties     *)
(* have been read and parsed (30-33); the files are assumed readable.       *)

\* tags of EncodingType a properties file may give to a role
CodeTags == {"GAMMA", "UNARY", "HUFFMAN"}

\* the properties of the source graph: any tag for each of the seven roles,
\* any parameters
PropsSet ==
    [block_coding : CodeTags, block_count_coding : CodeTags,
     outdegree_coding : CodeTags, offset_coding : CodeTags,
     reference_coding : CodeTags, interval_coding : CodeTags,
     residual_coding : CodeTags,
     window_size : 0..MaxWindow, max_ref_count : {MaxRefCount},
     min_interval_len : MinIntervalLens, zeta_k : {None, 3},
     nodes : {MaxNodes}, arcs : {MaxNodes}]

\* 8-25: the command line, with its defaults or with every option given
ArgsSet ==
    {[window_size |-> 7, max_ref_count |-> 3, min_interval_length |-> 4, zeta_k |-> 3],
     [window_size |-> 1, max_ref_count |-> 1, min_interval_length |-> 0, zeta_k |-> 2]}

\* 35-38: the match on the seven codings
MatchCodes(props) ==
    <<props.block_coding, props.block_count_coding, props.outdegree_coding,
      props.offset_coding, props.reference_coding, props.interval_coding,
      props.residual_coding>>
        = <<"HUFFMAN", "GAMMA", "HUFFMAN", "GAMMA", "UNARY", "HUFFMAN", "HUFFMAN">>

\* mutant of Configured: the in_* parameters taken from the command line
ConfiguredFromArgs(props, args) ==
    [in_min_interval_len |-> args.min_interval_length,
     out_min_interval_len |-> args.min_interval_length,
     in_max_ref_count |-> args.max_ref_count,
     out_max_ref_count |-> args.max_ref_count,
     in_window_size |-> args.window_size,
     out_window_size |-> args.window_size,
     in_zeta_k |-> args.zeta_k,
     out_zeta_k |-> args.zeta_k,
     num_nodes |-> props.nodes,
     num_edges |-> props.arcs]

\* 40-54: the builder after the setters
Configured(props, args) ==
    [in_min_interval_len |-> props.min_interval_len,
     out_min_interval_len |-> args.min_interval_length,
     in_max_ref_count |-> props.max_ref_count,
     out_max_ref_count |-> args.max_ref_count,
     in_window_size |-> props.window_size,
     out_window_size |-> args.window_size,
     in_zeta_k |-> props.zeta_k,
     out_zeta_k |-> args.zeta_k,
     num_nodes |-> props.nodes,
     num_edges |-> props.arcs]

\* 35-38: panic unless the code set is the one the binary reads
CheckCodes ==
    /\ main.pc = "props"
    /\ main' = [main EXCEPT !.pc = IF MatchCodes(main.props) THEN "checked" ELSE "panic"]
    /\ UNCHANGED <<stored, codecVars, compressVars, readVars>>

\* 40-54
Configure ==
    /\ main.pc = "checked"
    /\ main' = [main EXCEPT !.pc = "configured",
                            !.builder = Configured(main.props, main.args)]
    /\ UNCHANGED <<stored, codecVars, compressVars, readVars>>

\* 55: load_graph
LoadGraphFile ==
    /\ main.pc = "configured"
    /\ main' = [main EXCEPT !.pc = "graph", !.loaded = Append(@, "graph")]
    /\ UNCHANGED <<stored, codecVars, compressVars, readVars>>

\* 56: load_offsets
LoadOffsetsFile ==
    /\ main.pc = "graph"
    /\ main' = [main EXCEPT !.pc = "offsets", !.loaded = Append(@, "offsets")]
    /\ UNCHANGED <<stored, codecVars, compressVars, readVars>>

\* 57-58: load_outdegrees and build
Build ==
    /\ main.pc = "offsets"
    /\ main' = [main EXCEPT !.pc = "built"]
    /\ UNCHANGED <<stored, codecVars, compressVars, readVars>>

\* main after line 33, nothing else in use
InitDecompress ==
    /\ cin = [x |-> 0, window_size |-> 0, r |-> 0, min_interval_len |-> 0,
              ref |-> <<>>, cur |-> <<>>]
    /\ cpc = "idle"
    /\ cenc = NoEnc
    /\ civ = NoIntervals
    /\ cdec = NoDec
    /\ bv = [n |-> 0, succ |-> <<>>, out_window_size |-> 0,
             out_max_ref_count |-> 0, out_min_interval_len |-> 0]
    /\ pc = "idle"
    /\ curr = -1
    /\ list = <<>>
    /\ list_len = <<>>
    /\ ref_count = <<>>
    /\ best_candidates = <<>>
    /\ values = <<>>
    /\ graph_obs = <<>>
    /\ offsets_obs = <<>>
    /\ bit_offset = 0
    /\ compression_vectors = EmptyVectors
    /\ earlier = NotCalledBefore
    /\ ReadIdle
    /\ stored = NotStored
    /\ \E props \in PropsSet, args \in ArgsSet :
          main = [pc |-> "props", props |-> props, args |-> args,
                  builder |-> <<>>, loaded |-> <<>>]

NextDecompress ==
    CheckCodes \/ Configure \/ LoadGraphFile \/ LoadOffsetsFile \/ Build

SpecDecompress == InitDecompress /\ [][NextDecompress]_vars

----------------------------------------------------------------------------
(* A graph read from files, load_graph (2024) and build (2201-2262): the    *)
(* graph stream is whatever the file holds, so its fields are any values.   *)
(* The Huffman headers of the file are left out: the fields start at the    *)
(* first one.                                                               *)

\* the largest value of a field of a loaded stream
MaxField == 2

\* the largest number of fields of a loaded stream
MaxStreamLen == 5

\* the number of nodes the properties of a loaded graph declare
LoadedNodes == 2

\* one field of a loaded stream
LoadedTok(v) ==
    [role |-> "loaded", val |-> v, code |-> "", ctx |-> 0, bits |-> 0, node |-> -1]

LoadedStreams ==
    UNION {[1..k -> {LoadedTok(v) : v \in 0..MaxField}] : k \in 0..MaxStreamLen}

\* build(): the graph as loaded, nothing compressed, no iterator yet
InitLoaded ==
    /\ cin = [x |-> 0, window_size |-> 0, r |-> 0, min_interval_len |-> 0,
              ref |-> <<>>, cur |-> <<>>]
    /\ cpc = "idle"
    /\ cenc = NoEnc
    /\ civ = NoIntervals
    /\ cdec = NoDec
    /\ \E w \in 0..MaxWindow, l \in MinIntervalLens :
          bv = [n |-> LoadedNodes, succ |-> <<>>, out_window_size |-> w,
                out_max_ref_count |-> MaxRefCount, out_min_interval_len |-> l]
    /\ pc = "loaded"
    /\ curr = -1
    /\ list = <<>>
    /\ list_len = <<>>
    /\ ref_count = <<>>
    /\ best_candidates = <<>>
    /\ values = <<>>
    /\ graph_obs \in LoadedStreams
    /\ offsets_obs = <<>>
    /\ bit_offset = 0
    /\ compression_vectors = EmptyVectors
    /\ earlier = NotCalledBefore
    /\ ReadIdle
    /\ ToolIdle

NextLoaded == Iter \/ IterNext

SpecLoaded == InitLoaded /\ [][NextLoaded]_vars

\* a loaded graph with one node more than the window has lists and no arc:
\* the stream compress writes for it is one outdegree 0 per node.  The
\* window size is the largest with W + 1 <= WINDOW_LISTS, or one more
InitWide ==
    /\ cin = [x |-> 0, window_size |-> 0, r |-> 0, min_interval_len |-> 0,
              ref |-> <<>>, cur |-> <<>>]
    /\ cpc = "idle"
    /\ cenc = NoEnc
    /\ civ = NoIntervals
    /\ cdec = NoDec
    /\ \E w \in {WINDOW_LISTS - 1, WINDOW_LISTS}, l \in MinIntervalLens :
          bv = [n |-> WINDOW_LISTS + 1, succ |-> <<>>, out_window_size |-> w,
                out_max_ref_count |-> MaxRefCount, out_min_interval_len |-> l]
    /\ pc = "loaded"
    /\ curr = -1
    /\ list = <<>>
    /\ list_len = <<>>
    /\ ref_count = <<>>
    /\ best_candidates = <<>>
    /\ values = <<>>
    /\ graph_obs = [i \in 1..(WINDOW_LISTS + 1) |-> LoadedTok(0)]
    /\ offsets_obs = <<>>
    /\ bit_offset = 0
    /\ compression_vectors = EmptyVectors
    /\ earlier = NotCalledBefore
    /\ ReadIdle
    /\ ToolIdle

SpecWide == InitWide /\ [][NextLoaded]_vars

\* outdegree() of the iterator, 440-443
IterOutdegree == it.outd[it.curr % it.cyclic_buffer_size]

\* successor_array() of the iterator, 446-449
IterSuccessorArray ==
    WindowSlot(it.window, it.cyclic_buffer_size, it.curr % it.cyclic_buffer_size)

----------------------------------------------------------------------------
(* Random access, bvgraph_huffman_out.rs:156-195 and 773-1081 with          *)
(* window = None, on the graph compress has written.  ra holds the cache    *)
(* (cached_node, cached_outdegree, cached_ptr), the bit positions of        *)
(* graph_binary_wrapper and outdegrees_binary_wrapper, and the last call.   *)

\* the nodes outdegree and successors are called with: those of the graph
\* and the first MaxBeyond + 1 that are out of range
MaxBeyond == 1

\* 165-176 and 778-789: the outdegree of x is read at offsets[x] and cached
ReadOutdegree(c, obs, offsets, x) ==
    [c EXCEPT !.cached_node = x,
              !.cached_outdegree = OutdegreeAt(obs, offsets, x),
              !.cached_ptr = StartBit(obs, FieldAt(obs, offsets[x]) + 1),
              !.outd_pos = StartBit(obs, FieldAt(obs, offsets[x]) + 1)]

\* outdegree_internal(x), 773-792: the cache and the reader afterwards
outdegree_internal(c, obs, offsets, x) ==
    IF c.cached_node # None /\ x = c.cached_node THEN c
    ELSE ReadOutdegree(c, obs, offsets, x)

\* 856: outdegree_internal(x - reference) is called when the block count is
\* even; then the fields have been read up to f.p
AfterFields(c, obs, offsets, x, f) ==
    [(IF f.reference > 0 /\ Len(f.block) % 2 = 0
      THEN outdegree_internal(c, obs, offsets, x - f.reference)
      ELSE c)
     EXCEPT !.graph_pos = StartBit(obs, f.p)]

\* decode_list(x, graph_binary_wrapper, None, []), 795-1081, from the cache
\* and the readers c: the same record with the decoded list in it
RECURSIVE decode_list_random(_, _, _, _, _, _)
DecodeRandomFields(c, obs, offsets, window_size, min_interval_len, x, f) ==
    IF f.underflow \/ f.eof \/ f.reference > x
    THEN [c EXCEPT !.status = "panic"]
    ELSE IF f.reference > 0
    THEN [decode_list_random(AfterFields(c, obs, offsets, x, f), obs, offsets,
                             window_size, min_interval_len, x - f.reference)
          EXCEPT !.list = decode_merge(f, @)]
    ELSE [AfterFields(c, obs, offsets, x, f) EXCEPT !.list = decode_merge(f, <<>>)]

DecodeRandomCached(c, obs, offsets, window_size, min_interval_len, x) ==
    IF c.cached_outdegree < 0 THEN [c EXCEPT !.status = "panic"]
    ELSE IF c.cached_outdegree = 0
    THEN [c EXCEPT !.graph_pos = c.cached_ptr, !.list = <<>>]
    ELSE DecodeRandomFields(c, obs, offsets, window_size, min_interval_len, x,
            decode_fields(window_size, min_interval_len, x, c.cached_outdegree,
                          TokVals(obs), FieldAt(obs, c.cached_ptr),
                          [r \in 1..window_size |->
                             IF x - r >= 0 THEN OutdegreeAt(obs, offsets, x - r)
                             ELSE 0]))

decode_list_random(c, obs, offsets, window_size, min_interval_len, x) ==
    IF c.status = "panic" THEN c
    ELSE DecodeRandomCached(outdegree_internal(c, obs, offsets, x), obs, offsets,
                            window_size, min_interval_len, x)

\* the offsets random access reads with
LoadedOffsets == load_offsets(offsets_obs, bv.n)

\* 809-980: the fields of node y as decode_list reads them after its
\* outdegree
FieldsOf(y) ==
    decode_fields(bv.out_window_size, bv.out_min_interval_len, y,
                  OutdegreeAt(graph_obs, LoadedOffsets, y), TokVals(graph_obs),
                  FieldAt(graph_obs, LoadedOffsets[y]) + 1,
                  [r \in 1..bv.out_window_size |->
                     IF y - r >= 0 THEN OutdegreeAt(graph_obs, LoadedOffsets, y - r)
                     ELSE 0])

\* what the readers find for node y: its outdegree at offsets[y] and the
\* bit after it (165-176, 778-789), its fields and the bit after them
NodeRead(y) ==
    [degree |-> OutdegreeAt(graph_obs, LoadedOffsets, y),
     ptr |-> StartBit(graph_obs, FieldAt(graph_obs, LoadedOffsets[y]) + 1),
     f |-> FieldsOf(y),
     end |-> IF OutdegreeAt(graph_obs, LoadedOffsets, y) > 0 /\ ~FieldsOf(y).eof
             THEN StartBit(graph_obs, FieldsOf(y).p)
             ELSE None]

\* BVGraphBuilder::load_graph, load_offsets and build (2024-2090, 2201-2262):
\* the cache is empty (1925-1927) and both readers stand at the start; the
\* stream does not change any more, and what it holds for each node is
\* kept next to it
Load ==
    /\ pc = "done"
    /\ ra.status = "none"
    /\ ra' = [NotLoaded EXCEPT !.status = "loaded", !.op = "load",
                               !.fields = [y \in 0..(bv.n - 1) |-> NodeRead(y)]]
    /\ UNCHANGED <<it, ret, log, calls, compressVars, codecVars, toolVars>>

\* the cache and the readers after ReadOutdegree, the outdegree returned
ReturnCached(c) == [c EXCEPT !.ret = c.cached_outdegree]

\* mutant of outdegree: the node is cached before its range is tested
outdegree_caching_first(c, obs, offsets, num_nodes, x) ==
    IF c.cached_node # None /\ x = c.cached_node
    THEN [c EXCEPT !.ret = c.cached_outdegree]
    ELSE IF x >= num_nodes
    THEN [c EXCEPT !.cached_node = x, !.ret = None]
    ELSE ReturnCached(ReadOutdegree(c, obs, offsets, x))

\* outdegree(x), 156-179: the cache, the readers and the value returned
outdegree(c, obs, offsets, num_nodes, x) ==
    IF c.cached_node # None /\ x = c.cached_node
    THEN [c EXCEPT !.ret = c.cached_outdegree]
    ELSE IF x >= num_nodes
    THEN [c EXCEPT !.ret = None]
    ELSE ReturnCached(ReadOutdegree(c, obs, offsets, x))

\* a call of outdegree
Outdegree ==
    /\ ra.status = "loaded"
    /\ \E x \in 0..(bv.n + MaxBeyond) :
          ra' = [outdegree(ra, graph_obs, load_offsets(offsets_obs, bv.n), bv.n, x)
                 EXCEPT !.op = "outdegree", !.x = x]
    /\ UNCHANGED <<it, ret, log, calls, compressVars, codecVars, toolVars>>

\* successors(x), 186-195: the assertion, then decode_list without a window
Successors ==
    /\ ra.status = "loaded"
    /\ \E x \in 0..(bv.n + MaxBeyond) :
          IF ~(x < bv.n)
          THEN ra' = [ra EXCEPT !.status = "panic", !.op = "successors", !.x = x]
          ELSE \E c \in {decode_list_random(ra, graph_obs,
                                             load_offsets(offsets_obs, bv.n),
                                             bv.out_window_size,
                                             bv.out_min_interval_len, x)} :
               ra' = [c EXCEPT !.op = "successors", !.x = x]
    /\ UNCHANGED <<it, ret, log, calls, compressVars, codecVars, toolVars>>

\* the graphs that are written and then read at random: the graphs of the
\* scenarios and the graph with three blocks, with every window size and
\* minimum interval length
InitAccess ==
    CompressInit({GraphE3, GraphE5, GraphThreeBlocks},
                 (0..MaxWindow) \X {MaxRefCount} \X MinIntervalLens)

NextAccess == Next \/ Load \/ Outdegree \/ Successors

SpecAccess == InitAccess /\ [][NextAccess]_vars

----------------------------------------------------------------------------
(* Properties of compress *)

\* the nodes pass 1 has processed
Pass1Done == IF pc = "pass1" THEN 0..curr ELSE 0..(bv.n - 1)

\* the bits of the graph stream that belong to the record of node x
NodeBits(x) ==
    SumSeq([i \in 1..Len(graph_obs) |->
              IF graph_obs[i].node = x THEN graph_obs[i].bits ELSE 0])

\* the first field of the record of node x (0: none)
FirstFieldOf(x) ==
    LET of == {i \in 1..Len(graph_obs) : graph_obs[i].node = x}
    IN IF of = {} THEN 0 ELSE CHOOSE i \in of : \A k \in of : i <= k

\* C2: compress writes exactly n+1 values to the offsets stream, none of them
\* negative, and for every node i < n the (i+2)-th value is the number of bits
\* appended to the graph stream for node i, so that the cumulative offsets
\* never decrease; while pass 2 runs, the same holds of the nodes written
OffsetsAreNodeBits ==
    /\ pc = "pass2" =>
          /\ Len(offsets_obs) = curr + 1
          /\ \A i \in 0..(curr - 1) : offsets_obs[i + 2] = NodeBits(i)
    /\ pc = "done" =>
          /\ Len(offsets_obs) = bv.n + 1
          /\ \A k \in 1..Len(offsets_obs) : offsets_obs[k] >= 0
          /\ \A i \in 0..(bv.n - 1) : offsets_obs[i + 2] = NodeBits(i)
          /\ \A k \in 1..bv.n :
                SumSeq(SubSeq(offsets_obs, 1, k)) <= SumSeq(SubSeq(offsets_obs, 1, k + 1))

\* compress has finished on a graph whose three records have different sizes
OffsetsAreNodeBitsWitness ==
    /\ pc = "done"
    /\ offsets_obs[2] > offsets_obs[3]
    /\ offsets_obs[3] > offsets_obs[4]
    /\ offsets_obs[4] > 1

\* C3: for every node x < n, the sum of the first x+1 values of the offsets
\* stream, which load_offsets stores as offsets[x], is the bit of the graph
\* stream, Huffman headers included, at which the outdegree of node x begins,
\* and decoding from there yields S(x)
OffsetConsistency ==
    pc = "done" =>
       \A x \in 0..(bv.n - 1) :
          /\ FirstFieldOf(x) # 0
          /\ graph_obs[FirstFieldOf(x)].role = "outdegree"
          /\ load_offsets(offsets_obs, bv.n)[x] = StartBit(graph_obs, FirstFieldOf(x))
          /\ load_offsets(offsets_obs, bv.n)[x] >= graph_obs[1].bits
          /\ successors(graph_obs, load_offsets(offsets_obs, bv.n),
                        bv.out_window_size, bv.out_min_interval_len, x) = bv.succ[x]

\* compress has finished on a graph whose node 2 is decoded through node 1
\* and node 1 through node 0
OffsetConsistencyWitness ==
    /\ pc = "done"
    /\ best_candidates[1][2] = 1
    /\ best_candidates[2][2] = 1
    /\ Len(bv.succ[2]) >= 2
    /\ successors(graph_obs, load_offsets(offsets_obs, bv.n),
                  bv.out_window_size, bv.out_min_interval_len, 2) = bv.succ[2]

\* the number of references followed from node x to a node with r = 0
RECURSIVE ChainLen(_)
ChainLen(x) ==
    IF best_candidates[x][2] = 0 \/ best_candidates[x][2] > x THEN 0
    ELSE 1 + ChainLen(x - best_candidates[x][2])

HuffWritten(c) ==
    LET sel == SelectSeq(graph_obs,
                         LAMBDA t : t.code = "huffman" /\ t.ctx = c)
    IN [i \in 1..Len(sel) |-> sel[i].val]

IsPrefix(a, b) == Len(a) <= Len(b) /\ SubSeq(b, 1, Len(a)) = a

\* C5: in every context, the values pass 2 writes through the Huffman encoder
\* are, in order, the values pass 1 recorded for that context; pass 2 never
\* writes a value the context has no code for
ContextCoverage ==
    /\ pc # "panic"
    /\ pc = "pass2" =>
          \A c \in 0..(NUM_CONTEXTS - 1) : IsPrefix(HuffWritten(c), values[c])
    /\ pc = "done" =>
          \A c \in 0..(NUM_CONTEXTS - 1) : HuffWritten(c) = values[c]

\* compress has finished on a graph whose blocks were written in all three
\* block contexts, next to residuals and to a node copied with extras
ContextCoverageWitness ==
    /\ pc = "done"
    /\ \A c \in BLOCKS_IDX_BEGIN..(BLOCKS_IDX_BEGIN + 2) : HuffWritten(c) # <<>>
    /\ \E c \in RESIDUALS_IDX_BEGIN..(RESIDUALS_IDX_BEGIN + RESIDUALS_IDX_LEN - 1) :
          Len(HuffWritten(c)) >= 2
    /\ \E x \in 1..(bv.n - 1) :
          /\ best_candidates[x][2] > 0
          /\ Len(bv.succ[x]) > Len(bv.succ[x - best_candidates[x][2]])

\* the references node x may take: 0, and every r in [1, W] whose candidate
\* x - r has a depth below out_max_ref_count and a non-empty list
Candidates(x) ==
    {0} \cup {r \in 1..bv.out_window_size :
                /\ x - r >= 0
                /\ ChainLen(x - r) < bv.out_max_ref_count
                /\ bv.succ[x - r] # <<>>}

\* the bit length of node x with reference r under the default codes
DefaultBits(x, r) ==
    WrittenBy(diff_comp(bv.out_window_size, bv.out_min_interval_len, x, r,
                        bv.succ[x - r], bv.succ[x], FALSE).toks, values)

\* C6: for every node of outdegree > 0, pass 1 chooses among its candidate
\* references one of minimal bit length under the default universal codes,
\* and the smallest of those
ReferenceSelection ==
    \A x \in Pass1Done :
       bv.succ[x] # <<>> =>
          /\ best_candidates[x][2] \in Candidates(x)
          /\ best_candidates[x][1]
               = (x - best_candidates[x][2]) % (bv.out_window_size + 1)
          /\ \A r \in Candidates(x) :
                /\ DefaultBits(x, best_candidates[x][2]) <= DefaultBits(x, r)
                /\ DefaultBits(x, best_candidates[x][2]) = DefaultBits(x, r)
                      => best_candidates[x][2] <= r

\* pass 1 has chosen r = 1 for node 2 although r = 2 was a candidate of the
\* same bit length, and r = 0 was longer
ReferenceSelectionWitness ==
    /\ pc = "pass2"
    /\ best_candidates[2][2] = 1
    /\ 2 \in Candidates(2)
    /\ DefaultBits(2, 2) = DefaultBits(2, 1)
    /\ DefaultBits(2, 0) > DefaultBits(2, 1)

\* C12: a second call of compress on the same instance, whatever the first
\* call left in the scratch vectors, does not fail and ends with the same
\* reference choices, the same graph stream and the same offsets stream
IdempotentReencode ==
    earlier.again =>
        /\ pc # "panic"
        /\ pc \in {"pass2", "done"} => best_candidates = earlier.best_candidates
        /\ pc = "done" => /\ graph_obs = earlier.graph_obs
                          /\ offsets_obs = earlier.offsets_obs

\* the second call ended, having started with scratch vectors the first
\* call left filled, on a graph with a referenced node
IdempotentReencodeWitness ==
    /\ earlier.again /\ pc = "done"
    /\ earlier.vectors.blocks # <<>>
    /\ earlier.vectors.extras # <<>>
    /\ \E x \in 0..(bv.n - 1) : best_candidates[x][2] > 0

\* what next() has returned so far is 0, 1, ... in order, has_next() holds
\* exactly while fewer than n ids have been returned, and the last call
\* returned the next id, or None once all n were returned
IteratorOrderState ==
    it.status # "none" =>
        /\ log = [i \in 1..Len(log) |-> i - 1]
        /\ Len(log) <= it.n
        /\ Len(log) = Min(calls, it.n)
        /\ it.curr = Len(log) - 1
        /\ IterHasNext <=> Len(log) < it.n
        /\ calls > 0 => ret = (IF calls <= it.n THEN calls - 1 ELSE None)

\* a call of next() on an iterator without a next node returns None and
\* leaves the iterator as it is
ExhaustedNext ==
    (calls' = calls + 1 /\ ~IterHasNext) => (ret' = None /\ it' = it /\ log' = log)

\* C13: from iter() or into_iter(), the successive calls of next() return
\* 0, 1, ..., n-1 in this order, each once; has_next() is true exactly while
\* fewer than n ids have been returned; every later next() returns None and
\* does not change the iterator (with n = 0, the first call already)
IteratorOrder == [](IteratorOrderState) /\ [][ExhaustedNext]_vars

\* all the nodes of a graph were returned and next() was called twice more
IteratorOrderWitness ==
    /\ it.status = "ready" /\ it.n > 0
    /\ Len(log) = it.n
    /\ calls = it.n + 2
    /\ ret = None

\* C14: on a graph written by compress, the iterator never fails, and after
\* next() has returned x its outdegree() is |S(x)|, the first outdegree()
\* entries of its successor_array() are the list successors(x) decodes
\* recursively, which is S(x), and the slot it read as the reference was
\* holding the whole list of node x - r
SequentialAgreesWithRandomAccess ==
    it.status # "none" =>
        /\ it.status = "ready"
        /\ (calls > 0 /\ ret # None) =>
              /\ IterOutdegree = Len(bv.succ[ret])
              /\ Len(IterSuccessorArray) >= IterOutdegree
              /\ SubSeq(IterSuccessorArray, 1, IterOutdegree)
                    = successors(graph_obs, load_offsets(offsets_obs, bv.n),
                                 bv.out_window_size, bv.out_min_interval_len, ret)
              /\ SubSeq(IterSuccessorArray, 1, IterOutdegree) = bv.succ[ret]
              /\ it.ref_node >= 0 => it.ref_list = bv.succ[it.ref_node]

\* with a window of one list, node 2 was decoded from node 1 into the slot
\* node 0 had filled with a longer list
SequentialAgreesWithRandomAccessWitness ==
    /\ it.status = "ready" /\ ret = 2
    /\ it.cyclic_buffer_size = 2
    /\ it.ref_node = 1
    /\ IterOutdegree >= 1
    /\ Len(IterSuccessorArray) > IterOutdegree

\* the outdegree cache and the positions of the two readers
CacheAndReaders(c) ==
    <<c.cached_node, c.cached_outdegree, c.cached_ptr, c.graph_pos, c.outd_pos>>

\* a call with a node that is out of range: outdegree returns None and
\* successors fails, and neither touches the cache or a reader
OutOfRangeCall ==
    /\ (ra'.op = "outdegree" /\ ra'.x >= bv.n) =>
          /\ ra'.ret = None
          /\ ra'.status = "loaded"
          /\ CacheAndReaders(ra') = CacheAndReaders(ra)
    /\ (ra'.op = "successors" /\ ra'.x >= bv.n) =>
          /\ ra'.status = "panic"
          /\ CacheAndReaders(ra') = CacheAndReaders(ra)

\* C15: after any calls of outdegree and successors, outdegree(x) with
\* x >= n returns None and leaves cached_node, cached_outdegree, cached_ptr
\* and both readers as they were, and successors(x) with x >= n fails its
\* assertion without having read anything
OutOfRangeNodes == [][OutOfRangeCall]_vars

\* outdegree was called out of range after the cache had been filled and
\* the graph reader moved
OutOfRangeNodesWitness ==
    /\ ra.status = "loaded"
    /\ ra.op = "outdegree" /\ ra.x >= bv.n
    /\ ra.ret = None
    /\ ra.cached_node # None
    /\ ra.graph_pos > 0

\* compress runs with the parameters of the scenarios on graph g
Scenario(g) ==
    /\ bv.succ = g
    /\ <<bv.out_window_size, bv.out_max_ref_count, bv.out_min_interval_len>>
          = ScenarioParams

\* the values of the fields of one role in the record of node x, in order
RoleVals(x, role) ==
    TokVals(SelectSeq(graph_obs, LAMBDA t : t.node = x /\ t.role = role))

\* the record of node x has been written in full
Emitted(x) == (pc = "pass2" /\ curr >= x) \/ pc = "done"

\* C16 as stated: in scenario E3, for x = 1 and x = 2 the encoder picks
\* r = 1 and emits one copy block of length 4 and no extras
ScenarioE3OneBlock ==
    \A x \in {1, 2} :
       (Scenario(GraphE3) /\ Emitted(x)) =>
           /\ best_candidates[x][2] = 1
           /\ RoleVals(x, "block_count") = <<1>>
           /\ RoleVals(x, "block") = <<4>>
           /\ RoleVals(x, "left") = <<>>
           /\ RoleVals(x, "residual") = <<>>

\* C16: in scenario E3, for x = 1 and x = 2 the encoder picks r = 1 and
\* emits a block count of 0 and no block: the four successors are the
\* implicit copy of the whole reference list; it emits no extras
ScenarioE3ImplicitCopy ==
    Scenario(GraphE3) =>
        /\ pc # "panic"
        /\ \A x \in {1, 2} :
              Emitted(x) =>
                  /\ best_candidates[x][2] = 1
                  /\ RoleVals(x, "reference") = <<1>>
                  /\ RoleVals(x, "block_count") = <<0>>
                  /\ RoleVals(x, "block") = <<>>
                  /\ RoleVals(x, "interval_count") = <<>>
                  /\ RoleVals(x, "left") = <<>>
                  /\ RoleVals(x, "residual") = <<>>

\* scenario E3 has been compressed and read back up to node 2
ScenarioE3ImplicitCopyWitness ==
    /\ Scenario(GraphE3) /\ pc = "done"
    /\ ret = 2
    /\ SubSeq(IterSuccessorArray, 1, IterOutdegree) = <<1, 2, 3, 4>>

\* diff_comp for node 1 of scenario E5 against node 0 with r = 1, as pass 1
\* tries it
E5WithReference ==
    diff_comp(ScenarioParams[1], ScenarioParams[3], 1, 1, GraphE5[0], GraphE5[1], FALSE)

\* C17 as stated: in scenario E5, for x = 1 the encoder chooses r = 1 with
\* the copy blocks [4,1,1] and the extras [8], and the decoded list is S(1)
ScenarioE5ThreeBlocks ==
    (Scenario(GraphE5) /\ Emitted(1)) =>
        /\ best_candidates[1][2] = 1
        /\ E5WithReference.blocks = <<4, 1, 1>>
        /\ E5WithReference.extras = <<8>>
        /\ ret = 1 => SubSeq(IterSuccessorArray, 1, IterOutdegree) = GraphE5[1]

\* C17: in scenario E5, against S(0) with r = 1 the copy blocks are [4,1]
\* (copy 4, skip 1, the last copy being implicit) and the extras [8], and
\* these fields decode to S(1); but for x = 1 the encoder chooses r = 0,
\* which is shorter: the intervals (0,4) and (8,2) and no residual; the
\* list decoded from what it wrote is S(1)
ScenarioE5Intervals ==
    Scenario(GraphE5) =>
        /\ pc # "panic"
        /\ E5WithReference.status = "ok"
        /\ E5WithReference.blocks = <<4, 1>>
        /\ E5WithReference.extras = <<8>>
        /\ decode_node(ScenarioParams[1], ScenarioParams[3], 1, Len(GraphE5[1]),
                       TokVals(E5WithReference.toks), 1, GraphE5[0]).list = GraphE5[1]
        /\ Emitted(1) =>
              /\ best_candidates[1][2] = 0
              /\ WrittenBy(diff_comp(ScenarioParams[1], ScenarioParams[3], 1, 0,
                                     GraphE5[1], GraphE5[1], FALSE).toks, values)
                    < WrittenBy(E5WithReference.toks, values)
              /\ RoleVals(1, "reference") = <<0>>
              /\ RoleVals(1, "block_count") = <<>>
              /\ RoleVals(1, "interval_count") = <<2>>
              /\ RoleVals(1, "left") = <<int2nat(0 - 1), 8 - 4 - 1>>
              /\ RoleVals(1, "len") = <<4 - 2, 2 - 2>>
              /\ RoleVals(1, "residual") = <<>>
        /\ (it.status # "none" /\ ret = 1) =>
              SubSeq(IterSuccessorArray, 1, IterOutdegree) = GraphE5[1]

\* scenario E5 has been compressed and node 1 read back
ScenarioE5IntervalsWitness ==
    /\ Scenario(GraphE5) /\ pc = "done"
    /\ it.status = "ready" /\ ret = 1
    /\ SubSeq(IterSuccessorArray, 1, IterOutdegree) = <<0, 1, 2, 3, 8, 9>>

\* what decode_list returns to next() for the node after the current one
DecodedNext ==
    LET vals == TokVals(graph_obs)
        x == it.curr + 1
    IN decode_list_window(bv.out_window_size, bv.out_min_interval_len, x, vals,
                          it.ibs, it.window,
                          [it.outd EXCEPT ![x % it.cyclic_buffer_size] = At(vals, it.ibs)])

\* next() is about to decode a list whose length is not the outdegree the
\* stream declares for the node
LengthMismatch ==
    /\ it.status = "ready" /\ IterHasNext
    /\ ~DecodedNext.failed
    /\ Len(DecodedNext.list) # At(TokVals(graph_obs), it.ibs)

\* a call of next() that meets a length mismatch does not return the node
\* and stores nothing
MismatchReported ==
    (LengthMismatch /\ calls' = calls + 1) =>
        /\ ret' # it.curr + 1
        /\ it'.window = it.window
        /\ it'.outd = it.outd

\* C18: whenever the list reconstructed for a node by the iterator's next
\* has a length different from the outdegree declared in the stream,
\* decoding reports an error to the caller instead of returning or storing
\* a list
LengthMismatchIsAnError == [][MismatchReported]_vars

\* the call that met the mismatch returned the node as if nothing happened:
\* node 1 declares one successor, copied from the empty list of node 0
LengthMismatchReturned ==
    /\ pc = "loaded" /\ bv.out_window_size = 1
    /\ TokVals(graph_obs) = <<0, 1, 1, 1, 1>>
    /\ ret = 1 /\ it.status = "ready"
    /\ IterOutdegree = 1

\* the code set the decompress binary reads, by role
SupportedCodes(props) ==
    /\ props.block_coding = "HUFFMAN"
    /\ props.block_count_coding = "GAMMA"
    /\ props.outdegree_coding = "HUFFMAN"
    /\ props.offset_coding = "GAMMA"
    /\ props.reference_coding = "UNARY"
    /\ props.interval_coding = "HUFFMAN"
    /\ props.residual_coding = "HUFFMAN"

StoreSurfacesErrors ==
    (pc = "done" /\ stored.result # "none") =>
        /\ stored.result \in {"Ok", "Err"}
        /\ stored.result = "Ok" =>
              /\ stored.files = {"graph", "offsets", "properties"}
              /\ stored.properties.nodes = bv.n
              /\ stored.properties.arcs = bv.m
              /\ stored.properties.window_size = bv.out_window_size
              /\ stored.properties.max_ref_count = bv.out_max_ref_count
              /\ stored.properties.min_interval_len = bv.out_min_interval_len
              /\ stored.properties.zeta_k = bv.out_zeta_k
              /\ stored.properties.codings = OutCodings

\* what the code does instead: a failed write of the graph or of the
\* offsets panics, only a failed write of the properties is an Err
StoreUnwrapsTwoWrites ==
    (pc = "done" /\ stored.result # "none") =>
        /\ stored.result = "panic" <=> "offsets" \notin stored.files
        /\ stored.result = "Err" <=> stored.files = {"graph", "offsets"}
        /\ stored.result = "Ok" <=> "properties" \in stored.files

\* C21: for every window size W the iterator's window holds one list per
\* residue mod (W+1): for every node x and every reference r in [1, W] the
\* slots x mod (W+1) and (x-r) mod (W+1) exist and are distinct, and next()
\* never indexes outside the window or the outd array
CyclicWindowShape ==
    it.status # "none" =>
        /\ it.cyclic_buffer_size <= WINDOW_LISTS
        /\ DOMAIN it.outd = 0..(it.cyclic_buffer_size - 1)
        /\ \A r \in 1..(it.cyclic_buffer_size - 1) :
              ReferenceIndex(it.curr + 1, r, it.cyclic_buffer_size)
                 # (it.curr + 1) % it.cyclic_buffer_size
        /\ it.status # "index_panic"

\* next() indexed the window outside its lists
CyclicWindowOverrun ==
    /\ it.status = "index_panic"
    /\ it.curr = WINDOW_LISTS
    /\ it.cyclic_buffer_size = WINDOW_LISTS + 1

\* what the two streams hold at every point of compress: nothing during
\* pass 1; then the headers first, followed by the fields of the nodes in
\* the order of the nodes; and one offset per node begun, never an offset
\* without the headers
WriteOrderState ==
    /\ pc = "pass1" => (graph_obs = <<>> /\ offsets_obs = <<>>)
    /\ pc \in {"pass2", "done"} =>
          /\ Len(graph_obs) >= 1
          /\ graph_obs[1].role = "header"
          /\ \A i \in 2..Len(graph_obs) :
                /\ graph_obs[i].role # "header"
                /\ graph_obs[i].node >= 0
                /\ i > 2 => graph_obs[i - 1].node <= graph_obs[i].node
          /\ \A i \in 2..Len(graph_obs) : graph_obs[i].node <= curr
          /\ Len(offsets_obs) = curr + 1 + (IF pc = "done" THEN 1 ELSE 0)
          /\ pc = "done" => curr = bv.n - 1

\* one step of compress: pass 1 writes nothing; the headers are written at
\* bit 0 of the graph stream with no offset yet; in pass 2 the step of node
\* x appends one offset, which brings the sum of the offsets to the length
\* of the graph stream before the step (after the last bit of node x - 1,
\* before the first of node x), and then only fields of node x; the last
\* step appends one offset and no graph bit
WriteOrderStep ==
    /\ (pc = "pass1" /\ pc' # "pass2") =>
          (graph_obs' = graph_obs /\ offsets_obs' = offsets_obs)
    /\ (pc = "pass1" /\ pc' = "pass2") =>
          /\ WrittenBits(graph_obs) = 0
          /\ offsets_obs' = <<>>
          /\ Len(graph_obs') = 1 /\ graph_obs'[1].role = "header"
    /\ (pc = "pass2" /\ curr' = curr + 1) =>
          /\ Len(offsets_obs') = Len(offsets_obs) + 1
          /\ SubSeq(offsets_obs', 1, Len(offsets_obs)) = offsets_obs
          /\ SumSeq(offsets_obs') = WrittenBits(graph_obs)
          /\ Len(graph_obs') >= Len(graph_obs)
          /\ SubSeq(graph_obs', 1, Len(graph_obs)) = graph_obs
          /\ \A i \in (Len(graph_obs) + 1)..Len(graph_obs') :
                graph_obs'[i].node = curr + 1
    /\ (pc = "pass2" /\ pc' = "done") =>
          /\ graph_obs' = graph_obs
          /\ Len(offsets_obs') = bv.n + 1
          /\ SubSeq(offsets_obs', 1, bv.n) = offsets_obs
          /\ SumSeq(offsets_obs') = WrittenBits(graph_obs)

\* C22: nothing is written to the graph stream or to the offsets stream
\* during pass 1; the Huffman headers are written at bit 0, before any
\* offset and any node data; in pass 2 the offset of node x is written
\* after all the graph bits of node x - 1 and before any graph bit of node
\* x, and one final offset is written after the last node
WriteOrdering == [](WriteOrderState) /\ [][WriteOrderStep]_vars

\* compress has finished on a graph where the last two nodes both have
\* fields after their outdegree
WriteOrderingWitness ==
    /\ pc = "done" /\ bv.n >= 2
    /\ Len(offsets_obs) = bv.n + 1
    /\ offsets_obs[bv.n] > 1 /\ offsets_obs[bv.n + 1] > 1
    /\ \E i \in 2..Len(graph_obs) :
          graph_obs[i].node = bv.n - 1 /\ graph_obs[i].role # "outdegree"

----------------------------------------------------------------------------
(* The routing of the values to the Huffman contexts, 31-42, 1116-1125,    *)
(* 1212-1220, 1413-1609 and 1615-1802, on a graph whose node ids pass 32   *)
(* twice and whose values reach the caps of the buckets.                   *)

ContextNodes == 65

\* 34 residuals two apart: the residual count is past the cap of its bucket
ManyResiduals == [i \in 1..34 |-> 2 * i]

\* ManyResiduals without its 3rd, 10th and 20th entry: six copy blocks
FewerResiduals ==
    SelectSeq(ManyResiduals, LAMBDA v : v \notin {6, 20, 40})

\* node 0 and node 4 start 128 after their id (first residual 256, past the
\* cap of the bucket of the gaps); node 3 has an interval of 40 that starts
\* 20 after it and a second interval of 2
GraphContexts ==
    [x \in 0..(ContextNodes - 1) |->
       IF x = 0 THEN <<128, 130>>
       ELSE IF x = 1 THEN ManyResiduals
       ELSE IF x = 2 THEN FewerResiduals
       ELSE IF x = 3 THEN [i \in 1..40 |-> 22 + i] \o <<200, 201>>
       ELSE IF x = 4 THEN <<132, 140>>
       ELSE IF x = ContextNodes - 2 THEN <<1>>
       ELSE <<>>]

InitContexts ==
    CompressInit({GraphContexts}, (0..1) \X {MaxRefCount} \X MinIntervalLens)

SpecContexts == InitContexts /\ [][Next]_vars

\* the fields of node x in the graph stream, in order
NodeRecord(x) == SelectSeq(graph_obs, LAMBDA t : t.node = x)

\* the number of fields of the same role before field i of a record
FieldIndex(toks, i) ==
    Cardinality({k \in 1..(i - 1) : toks[k].role = toks[i].role})

\* the number of fields of a role in a record
RoleCount(toks, role) ==
    Cardinality({k \in 1..Len(toks) : toks[k].role = role})

\* the range of contexts of the role of field i of a record
RoleRange(toks, i) ==
    LET role == toks[i].role
        first == FieldIndex(toks, i) = 0
    IN IF role = "outdegree" THEN 0..31
       ELSE IF role = "block"
       THEN IF first THEN {32}
            ELSE {33 + (FieldIndex(toks, i) % 2)}
       ELSE IF role = "residual" THEN IF first THEN 35..66 ELSE 67..146
       ELSE IF role = "left" THEN IF first THEN {147} ELSE 148..178
       ELSE IF role = "len" THEN IF first THEN {179} ELSE 180..210
       ELSE {}

\* what the context of field i of a record is keyed by: the residual count
\* for the first residual, the previous residual value for the later ones
RoleKey(toks, i) ==
    LET role == toks[i].role
        first == FieldIndex(toks, i) = 0
    IN IF role = "residual"
       THEN IF first THEN <<"count", RoleCount(toks, "residual")>>
            ELSE <<"previous", toks[i - 1].val>>
       ELSE <<role, first>>

\* every Huffman-coded field of a record is in the range of its role
RecordInRange(toks) ==
    \A i \in 1..Len(toks) :
       toks[i].code = "huffman" =>
          /\ toks[i].ctx \in RoleRange(toks, i)
          /\ toks[i].ctx < NUM_CONTEXTS

\* the residuals of two records with the same key are in the same context
SameKeySameContext(a, b) ==
    \A i \in 1..Len(a), k \in 1..Len(b) :
       (a[i].role = "residual" /\ b[k].role = "residual"
          /\ RoleKey(a, i) = RoleKey(b, k)) => a[i].ctx = b[k].ctx

\* the Huffman-coded fields of a record as the pushes <<context, value>>
PushesOf(toks) ==
    LET sel == SelectSeq(toks, LAMBDA t : t.code = "huffman")
    IN [i \in 1..Len(sel) |-> <<sel[i].ctx, sel[i].val>>]

\* the record pass 1 has just chosen for node curr, with its fields' roles
PassOneRecord ==
    diff_comp_on(compression_vectors, bv.out_window_size,
                 bv.out_min_interval_len, curr, best_candidates[curr][2],
                 list[best_candidates[curr][1]],
                 list[curr % (bv.out_window_size + 1)], TRUE).toks

\* the pushes of pass 1 for node curr, 1167-1176
PassOnePushes ==
    add_vals(bv.out_min_interval_len, curr, best_candidates[curr][2],
             list[best_candidates[curr][1]],
             list[curr % (bv.out_window_size + 1)])

\* C24: every value recorded in pass 1 and every value written in pass 2
\* goes to a context in the range of its role: the outdegree to [0, 32),
\* the same for two nodes equal mod 32; the first copy block to 32 and the
\* later ones to 34 and 33 in turn; the first residual to [35, 67) by the
\* residual count, the later ones to [67, 147) by the previous residual
\* value; the first interval left to 147, the later ones to [148, 179); the
\* first interval length to 179, the later ones to [180, 211); every context
\* is below NUM_CONTEXTS = 211
ContextRouting ==
    /\ \A x \in 0..(bv.n - 1) :
          Emitted(x) =>
             /\ RecordInRange(NodeRecord(x))
             /\ \A y \in 0..(x - 1) :
                   /\ SameKeySameContext(NodeRecord(x), NodeRecord(y))
                   /\ x % 32 = y % 32 =>
                         NodeRecord(x)[1].ctx = NodeRecord(y)[1].ctx
    /\ (pc = "pass1" /\ curr >= 0) =>
          /\ OutdCtxPass1(curr) \in 0..31
          /\ OutdCtxPass1(curr) = OutdCtxPass1(curr % 32)
          /\ values[OutdCtxPass1(curr)] # <<>>
          /\ bv.succ[curr] # <<>> =>
                /\ PassOnePushes = PushesOf(PassOneRecord)
                /\ RecordInRange(PassOneRecord)
                /\ \A p \in 1..Len(PassOnePushes) :
                      PassOnePushes[p][1] \in 32..(NUM_CONTEXTS - 1)

\* compress has finished with a window of 1 and intervals from length 2:
\* the three block contexts are used, the later ones twice or more, and the
\* last context of every range is used, where the bucket is at its cap
ContextRoutingWitness ==
    /\ pc = "done"
    /\ bv.out_window_size = 1 /\ bv.out_min_interval_len = 2
    /\ HuffWritten(32) # <<>>
    /\ Len(HuffWritten(33)) >= 2 /\ Len(HuffWritten(34)) >= 2
    /\ \A c \in {31, 66, 146, 178, 210} : HuffWritten(c) # <<>>

----------------------------------------------------------------------------
(* The reference pass 1 chooses, 1134-1178, for every out_max_ref_count    *)
(* the builder accepts (a usize, 2139-2141), those from 2^31 on included.  *)

\* out_max_ref_count in {MaxRefCount, 2^31 - 1} with the bits above zero,
\* and in {2^31 + MaxRefCount, 2^32 - 1} with bit 31 set
InitLargeRef ==
    CompressInitOn({GraphE3, GraphE5, GraphThreeBlocks},
                   (0..MaxWindow) \X {MaxRefCount, I32_MAX} \X MinIntervalLens,
                   {0, 1})

SpecLargeRef == InitLargeRef /\ [][Next]_vars

\* pass 1 has chosen the reference of node x
Chosen(x) == (pc = "pass1" /\ curr >= x) \/ pc \in {"pass2", "done"}

\* the pair <<best_cand, best_ref>> of node x is a reference the window
\* allows, to a node that exists and has successors
ValidChoice(x) ==
    LET best_cand == best_candidates[x][1]
        best_ref == best_candidates[x][2]
    IN /\ best_cand >= 0
       /\ best_ref \in 0..bv.out_window_size
       /\ best_ref > 0 => (x - best_ref >= 0 /\ bv.succ[x - best_ref] # <<>>)
       /\ best_ref <= x => best_cand = (x - best_ref) % (bv.out_window_size + 1)

\* C25: for every node x with outdegree > 0 pass 1 finds a candidate (the
\* assertion best_cand >= 0 holds), the chosen r is in [0, W], and for
\* r > 0 the candidate is the node x - r >= 0 with a non-empty list; so
\* compress stops neither at the assertion nor at the error of
\* write_reference, and with W = 0 no reference is written
ChosenReference ==
    /\ pc # "panic"
    /\ \A x \in 0..(bv.n - 1) :
          (Chosen(x) /\ bv.succ[x] # <<>>) => ValidChoice(x)
    /\ \A i \in 1..Len(graph_obs) :
          graph_obs[i].role = "reference" =>
             /\ bv.out_window_size > 0
             /\ graph_obs[i].val <= bv.out_window_size

\* pass 1 is at its first node with successors, out_max_ref_count is 2^31
\* or more with bit 31 set, and no candidate was found
ChosenReferenceNone ==
    /\ pc = "panic" /\ graph_obs = <<>>
    /\ bv.out_max_ref_count_hi = 1
    /\ bv.succ[curr] # <<>>

----------------------------------------------------------------------------
(* successors(x), 186-195, call by call: decode_list without a window      *)
(* (795-1081) calls itself at 989 for the node it refers to.  Each call of *)
(* decode_list is a step; ra.frames holds the calls that have not returned *)
(* and ra.status is "decoding" on the way down, "returning" on the way up. *)

\* mutant of ReferredNode: the call is made for the node itself
ReferredNodeItself(x, reference) == x

\* 989: the node the recursive call is made for
ReferredNode(x, reference) == x - reference

\* mutant of LookUp: a filled cache answers for every node
LookUpAnyCached(c, y) ==
    IF c.cached_node # None THEN c
    ELSE [c EXCEPT !.cached_node = y,
                   !.cached_outdegree = c.fields[y].degree,
                   !.cached_ptr = c.fields[y].ptr,
                   !.outd_pos = c.fields[y].ptr]

\* mutant of LookUp: the position after the outdegree is not cached
LookUpStalePtr(c, y) ==
    IF c.cached_node # None /\ y = c.cached_node THEN c
    ELSE [c EXCEPT !.cached_node = y,
                   !.cached_outdegree = c.fields[y].degree,
                   !.outd_pos = c.fields[y].ptr]

\* outdegree_internal(y), 773-792, on the loaded stream: the cache and the
\* reader of the outdegrees afterwards
LookUp(c, y) ==
    IF c.cached_node # None /\ y = c.cached_node THEN c
    ELSE [c EXCEPT !.cached_node = y,
                   !.cached_outdegree = c.fields[y].degree,
                   !.cached_ptr = c.fields[y].ptr,
                   !.outd_pos = c.fields[y].ptr]

\* 856 on the loaded stream: outdegree_internal(y - reference) is called
\* when the block count is even; then the fields of y have been read
FieldsRead(c, y) ==
    [(IF c.fields[y].f.reference > 0 /\ Len(c.fields[y].f.block) % 2 = 0
      THEN LookUp(c, y - c.fields[y].f.reference)
      ELSE c)
     EXCEPT !.graph_pos = c.fields[y].end]

\* 803-804: decoder.position(cached_ptr) after outdegree_internal(y)
PlaceDecoder(c, y) ==
    [c EXCEPT !.graph_pos = c.cached_ptr, !.frames = Append(@, y)]

\* 802-806: a call of decode_list for node y looks its outdegree up and puts
\* the decoder after it
EnterNode(c, y) == PlaceDecoder(LookUp(c, y), y)

\* the node of the innermost call
Top == ra.frames[Len(ra.frames)]

\* a call returns to its caller, or to the caller of successors
Leave(c) ==
    [c EXCEPT !.frames = SubSeq(@, 1, Len(@) - 1),
              !.status = IF Len(c.frames) = 1 THEN "loaded" ELSE "returning"]

\* successors(x) is called, 186-195
SuccessorsCall ==
    /\ ra.status = "loaded"
    /\ \E x \in 0..(bv.n - 1) :
          ra' = [EnterNode(ra, x) EXCEPT !.status = "decoding",
                                         !.op = "successors", !.x = x,
                                         !.list = <<>>]
    /\ UNCHANGED <<it, ret, log, calls, compressVars, codecVars, toolVars>>

\* 807-992: the outdegree returned by outdegree_internal is not 0, the
\* fields of the node have been read and it refers to another node:
\* decode_list is called for that node
Descend ==
    /\ ra.status = "decoding"
    /\ ra.cached_outdegree > 0
    /\ \E f \in {ra.fields[Top].f} :
          /\ ~(f.underflow \/ f.eof)
          /\ f.reference > 0 /\ f.reference <= Top
          /\ Len(ra.frames) <= bv.n
          /\ \E c \in {FieldsRead(ra, Top)} :
                ra' = EnterNode(c, ReferredNode(Top, f.reference))
    /\ UNCHANGED <<it, ret, log, calls, compressVars, codecVars, toolVars>>

\* 808-810 and 982-1081 with reference <= 0: the call returns the list it
\* has read; a field that cannot be read is a panic
Bottom ==
    /\ ra.status = "decoding"
    /\ \E d \in {ra.cached_outdegree} :
          IF d = 0 THEN ra' = Leave([ra EXCEPT !.list = <<>>])
          ELSE \E f \in {ra.fields[Top].f} :
                  IF d < 0 \/ f.underflow \/ f.eof \/ f.reference > Top
                  THEN ra' = [ra EXCEPT !.status = "panic"]
                  ELSE /\ f.reference <= 0
                       /\ ra' = Leave([FieldsRead(ra, Top)
                                       EXCEPT !.list = decode_merge(f, <<>>)])
    /\ UNCHANGED <<it, ret, log, calls, compressVars, codecVars, toolVars>>

\* 993-1081: the call made at 989 has returned the list of the node referred
\* to; the blocks are copied from it, the extras merged in, and the call
\* returns
Return ==
    /\ ra.status = "returning"
    /\ \E f \in {ra.fields[Top].f} :
          ra' = Leave([ra EXCEPT !.list = decode_merge(f, @)])
    /\ UNCHANGED <<it, ret, log, calls, compressVars, codecVars, toolVars>>

\* the graphs of the scenarios and the graph with three blocks are written
\* with every window size, reference depth and minimum interval length
InitDescend ==
    CompressInit({GraphE3, GraphE5, GraphThreeBlocks},
                 (0..MaxWindow) \X (0..MaxRefCount) \X MinIntervalLens)

NextDescend ==
    Next \/ Load \/ Outdegree \/ SuccessorsCall \/ Descend \/ Bottom \/ Return

SpecDescend == InitDescend /\ [][NextDescend]_vars

\* the reads on the loaded stream are the reads of outdegree_internal and
\* decode_list on the stream itself
LoadedReads ==
    ra.status = "loaded" =>
       \A y \in 0..(bv.n - 1) :
          /\ LookUp(ra, y) = outdegree_internal(ra, graph_obs, LoadedOffsets, y)
          /\ ra.fields[y].degree > 0 =>
                FieldsRead(ra, y) = AfterFields(ra, graph_obs, LoadedOffsets, y,
                                                FieldsOf(y))

\* a call that has been made runs on: the program is sequential
SpecDescendFair == SpecDescend /\ WF_vars(Descend \/ Bottom \/ Return)

\* the calls of decode_list inside the call of successors in progress
RecursionDepth == Len(ra.frames) - 1

\* a recursive call is for a smaller node than the call that makes it
SmallerNode ==
    (ra.frames # <<>> /\ Len(ra'.frames) > Len(ra.frames)) =>
       ra'.frames[Len(ra'.frames)] < Top

\* C26: on the streams compress writes (every reference r of node x has
\* 1 <= r <= x, every chain at most out_max_ref_count references)
\* successors(x) returns, every recursive call of decode_list is for a
\* smaller node, and the recursion is never deeper than out_max_ref_count
BoundedRecursion ==
    /\ [](RecursionDepth <= bv.out_max_ref_count)
    /\ [][SmallerNode]_vars
    /\ (ra.status \in {"decoding", "returning"}) ~>
          (ra.status = "loaded" /\ ra.op = "successors" /\ ra.frames = <<>>
             /\ ra.list = bv.succ[ra.x])

\* the call of successors for the last node is two calls deep: the node
\* refers to a node that refers to a third
BoundedRecursionWitness ==
    /\ ra.status = "decoding"
    /\ RecursionDepth = 2 /\ bv.out_max_ref_count = 2
    /\ ra.frames[1] > ra.frames[2] /\ ra.frames[2] > ra.frames[3]

----------------------------------------------------------------------------
(* The outdegree cache, 156-179 and 773-792, under any sequence of calls   *)
(* of outdegree and successors, the states inside a call included.         *)

\* the graph is loaded, and a call of successors may be in progress
Loaded == ra.status \in {"loaded", "decoding", "returning"}

\* the bit after field i of the graph stream
EndBit(i) == WrittenBits(SubSeq(graph_obs, 1, i))

\* C27: cached_node, cached_outdegree and cached_ptr are all None or all
\* Some; when cached_node = Some(c) then c < n, cached_outdegree is the
\* outdegree the stream holds at offsets[c] and cached_ptr the bit right
\* after that outdegree; also inside a call of successors, after the
\* outdegree of a node referred to has been looked up
CacheCoherence ==
    Loaded =>
       \/ /\ ra.cached_node = None
          /\ ra.cached_outdegree = None
          /\ ra.cached_ptr = None
       \/ /\ ra.cached_node # None
          /\ ra.cached_outdegree # None
          /\ ra.cached_ptr # None
          /\ ra.cached_node \in 0..(bv.n - 1)
          /\ \E i \in {FirstFieldOf(ra.cached_node)} :
                /\ i > 0
                /\ graph_obs[i].role = "outdegree"
                /\ EndBit(i - 1) = LoadedOffsets[ra.cached_node]
                /\ ra.cached_outdegree = graph_obs[i].val
                /\ ra.cached_outdegree = Len(bv.succ[ra.cached_node])
                /\ ra.cached_ptr = EndBit(i)

\* inside a call of successors for node x, on the way back from the node
\* referred to, the cache holds a node before x that has successors
CacheCoherenceWitness ==
    /\ ra.status = "returning"
    /\ ra.cached_node # None /\ ra.cached_node < ra.x
    /\ ra.cached_outdegree > 0
    /\ ra.cached_ptr > LoadedOffsets[ra.cached_node]
    /\ Len(ra.frames) >= 1

----------------------------------------------------------------------------
(* The values diff_comp stores and decode_list computes are usize: none    *)
(* of the subtractions at 1330-1393, 1471-1608 and 829-903 goes below 0.   *)

\* the residuals diff_comp writes, 1548-1553
WrittenResiduals ==
    IF Len(cenc.extras) = 0 THEN <<>>
    ELSE IF cin.min_interval_len # 0 THEN cenc.residuals
    ELSE cenc.extras

\* the block lengths decode_list reads back, 836-849
ReadBackBlocks ==
    [i \in 1..Len(cenc.blocks) |->
       SelectSeq(cenc.toks, LAMBDA t : t.role = "block")[i].val
          + (IF i = 1 THEN 0 ELSE 1)]

\* C28: for strictly increasing S(x) and S(cand) every copy or skip block
\* after the first has length >= 1, every interval length is >= L_min,
\* every interval after the first starts after the end of the previous one
\* (left[i] - (left[i-1] + len[i-1]) - 1 >= 0), every residual after the
\* first is greater than the one before (gap - 1 >= 0), so no stored value
\* is below 0; and in the decoder, on what the encoder wrote, the implicit
\* count outdegree(x - r) - sum(blocks) and extra = d - copied are >= 0
NoUnderflow ==
    (ValidInput /\ cpc \in {"encoded", "decoded"}) =>
       /\ cenc.status = "ok"
       /\ \A i \in 2..Len(cenc.blocks) : cenc.blocks[i] - 1 >= 0
       /\ \A i \in 1..Len(cenc.len) : cenc.len[i] - cin.min_interval_len >= 0
       /\ \A i \in 2..Len(cenc.left) :
             cenc.left[i] - (cenc.left[i - 1] + cenc.len[i - 1]) - 1 >= 0
       /\ \A i \in 2..Len(WrittenResiduals) :
             WrittenResiduals[i] - WrittenResiduals[i - 1] - 1 >= 0
       /\ \A t \in 1..Len(cenc.toks) : cenc.toks[t].val >= 0
       /\ cpc = "decoded" =>
             /\ ~cdec.underflow
             /\ cin.r > 0 =>
                   /\ Len(cenc.blocks) % 2 = 0 =>
                         Len(cin.ref) - SumSeq(ReadBackBlocks) >= 0
                   /\ Len(cin.cur)
                        - (CopiedOf(ReadBackBlocks)
                             + (IF Len(cenc.blocks) % 2 = 0
                                THEN Len(cin.ref) - SumSeq(ReadBackBlocks)
                                ELSE 0)) >= 0

\* a node with a reference was encoded and decoded: a block was written,
\* and two intervals of which the second starts right after the gap that
\* ends the first, and a residual
NoUnderflowWitness ==
    /\ cpc = "decoded" /\ ValidInput
    /\ cin.r > 0
    /\ Len(cenc.blocks) >= 1
    /\ Len(cenc.left) >= 2
    /\ cenc.left[2] - (cenc.left[1] + cenc.len[1]) - 1 = 0
    /\ Len(WrittenResiduals) >= 1

\* the same with an even number of blocks, so that the last copy block is
\* the implicit one and its length is outdegree(x - r) - sum(blocks)
NoUnderflowImplicit ==
    /\ cpc = "decoded" /\ ValidInput
    /\ cin.r > 0
    /\ Len(cenc.blocks) >= 2 /\ Len(cenc.blocks) % 2 = 0
    /\ Len(cin.ref) - SumSeq(ReadBackBlocks) > 0
    /\ Len(WrittenResiduals) >= 2

----------------------------------------------------------------------------
(* outdegree(x) and successors(x) after any calls made before, against the *)
(* same calls on the instance as build() returns it (2201-2262).           *)

\* the instance as it is after build(): nothing cached, both readers at the
\* start of the stream
FreshInstance ==
    [ra EXCEPT !.status = "loaded", !.cached_node = None,
               !.cached_outdegree = None, !.cached_ptr = None,
               !.graph_pos = 0, !.outd_pos = 0, !.ret = None, !.list = <<>>,
               !.frames = <<>>]

\* what outdegree(x) returns on the fresh instance
FreshOutdegree(x) ==
    outdegree(FreshInstance, graph_obs, LoadedOffsets, bv.n, x).ret

\* what successors(x) returns on the fresh instance
FreshSuccessors(x) ==
    decode_list_random(FreshInstance, graph_obs, LoadedOffsets,
                       bv.out_window_size, bv.out_min_interval_len, x).list

\* C29: whatever calls of outdegree and successors were made before (any
\* cache, any positions of the two readers), outdegree(x) and successors(x)
\* for x < n return what they return on a freshly built instance and do not
\* panic; and looking a node's outdegree up, as decode_list does for the
\* node it refers to, leaves the reader decode_list consumes where it is
HistoryIndependence ==
    /\ ra.status # "panic"
    /\ (ra.status = "loaded" /\ ra.op = "outdegree" /\ ra.x < bv.n) =>
          ra.ret = FreshOutdegree(ra.x)
    /\ (ra.status = "loaded" /\ ra.op = "successors") =>
          ra.list = FreshSuccessors(ra.x)
    /\ ra.status \in {"loaded", "decoding", "returning"} =>
          \A y \in 0..(bv.n - 1) :
             /\ LookUp(ra, y).graph_pos = ra.graph_pos
             /\ (ra.fields[y].degree > 0 /\ ~ra.fields[y].f.eof) =>
                   FieldsRead(ra, y).graph_pos = ra.fields[y].end

\* successors(x) has returned a list it copied from another node, whose
\* outdegree was looked up after that of x
HistoryIndependenceWitness ==
    /\ ra.status = "loaded" /\ ra.op = "successors"
    /\ ra.list # <<>>
    /\ ra.fields[ra.x].f.reference > 0
    /\ ra.cached_node # ra.x

\* outdegree(x) has returned the outdegree of a node that was not cached,
\* after a call of successors
HistoryIndependenceOutdegree ==
    /\ ra.status = "loaded" /\ ra.op = "outdegree" /\ ra.x < bv.n
    /\ ra.ret > 0
    /\ ra.graph_pos > 0
    /\ ra.graph_pos # ra.cached_ptr

----------------------------------------------------------------------------
(* The pair (best_cand, best_ref) pass 1 stores at 1177 and pass 2 reads   *)
(* at 1230: list, list_len and ref_count are created once (1093-1099) and  *)
(* go from pass 1 into pass 2 as they are.                                 *)

\* the node whose pair is in use: the node of the current iteration
StoredCand == best_candidates[curr][1]

StoredRef == best_candidates[curr][2]

\* C30: when pass 1 has chosen the pair (best_cand, best_ref) for a node x
\* with successors, and when pass 2 has emitted x with the stored pair,
\* best_ref is in 0..W, node x - best_ref exists, best_cand is its slot
\* and that slot of list holds S(x - best_ref) with its length (S(x) when
\* best_ref = 0): the list pass 2 hands to diff_comp is the list pass 1
\* handed to add_vals, although pass 2 starts on the buffers pass 1 left
StoredReference ==
    (pc \in {"pass1", "pass2", "done"} /\ curr >= 0 /\ bv.succ[curr] # <<>>) =>
       /\ StoredRef \in 0..bv.out_window_size
       /\ curr - StoredRef >= 0
       /\ StoredCand = (curr - StoredRef) % (bv.out_window_size + 1)
       /\ list[StoredCand] = bv.succ[curr - StoredRef]
       /\ list_len[StoredCand] = Len(bv.succ[curr - StoredRef])

\* pass 2 has emitted a node that refers to an earlier one, whose slot held
\* the different list of a later node when pass 1 ended
StoredReferenceWitness ==
    /\ pc = "pass2" /\ curr >= 0
    /\ bv.succ[curr] # <<>>
    /\ StoredRef > 0
    /\ \E y \in (curr + 1)..(bv.n - 1) :
          /\ y % (bv.out_window_size + 1) = StoredCand
          /\ bv.succ[y] # bv.succ[curr - StoredRef]

============================================================================
